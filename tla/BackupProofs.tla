---------------------------- MODULE BackupProofs ----------------------------
(***************************************************************************)
(* The driver's side of backup mode for any number of disks and requests:  *)
(* as long as no commit job fails once it has been ready, and nobody       *)
(* starts Windows while a client works on the files ("calm"), neither      *)
(* panic can happen and the files follow the disks.                        *)
(***************************************************************************)
EXTENDS Backup, FiniteSetTheorems, TLAPS

ReadyFor(i, d) == queue[i].op = "JobReady" /\ queue[i].disk = d

\* A job that runs has its entry and no event yet.  The one JobReady of a disk
\* belongs to a job that is ready and whose entry is still there.
JobInvOf(d) ==
    /\ job[d] = "running" => pending[d] # Nobody /\ \A i \in DOMAIN queue : ~ReadyFor(i, d)
    /\ job[d] \in {"running", "ready"} => d \in file \cap redirected
    /\ \A i \in DOMAIN queue : ReadyFor(i, d) =>
         /\ job[d] = "ready" /\ pending[d] # Nobody
         /\ \A j \in DOMAIN queue : ReadyFor(j, d) => j = i
JobInv == \A d \in Disks : JobInvOf(d)

\* The loop rests while a file is about to go, so that no job starts meanwhile,
\* and the file of a job that completes is about to go or gone.
RemovalInv ==
    /\ removing # NotRemoving =>
         /\ removing.disk \in file
         /\ \/ job[removing.disk] = "completing"
            \/ job[removing.disk] = "none" /\ removing.disk \notin redirected
    /\ \A d \in Disks : job[d] = "completing" /\ d \in file => removing.disk = d

\* The driver and a client that works on the files take turns.
TurnInv ==
    /\ up => Offline = {}
    /\ ~up => /\ queue = <<>> /\ removing = NotRemoving
              /\ redirected = {} /\ job = [d \in Disks |-> "none"]

CalmInv == calm /\ TypeOK /\ JobInv /\ RemovalInv /\ TurnInv /\ FileFollowsDisk

BackupInv == TypeOK /\ (calm => CalmInv)

-----------------------------------------------------------------------------
LEMMA TakeQueue ==
    ASSUME TypeOK, NEW op, Take(op)
    PROVE  /\ Head(queue) \in Command /\ Head(queue) = queue[1] /\ 1 \in DOMAIN queue
           /\ queue' \in Seq(Command)
           /\ \A i \in DOMAIN queue' : i + 1 \in DOMAIN queue /\ queue'[i] = queue[i + 1] /\ i + 1 # 1
BY DEF TypeOK, Take

LEMMA AppendQueue ==
    ASSUME TypeOK, NEW e \in Command, queue' = Append(queue, e)
    PROVE  /\ queue' \in Seq(Command)
           /\ \A i \in DOMAIN queue' : \/ i \in DOMAIN queue /\ queue'[i] = queue[i]
                                       \/ i = Len(queue) + 1 /\ i \notin DOMAIN queue /\ queue'[i] = e
BY DEF TypeOK

\* A request queues commands for the disks, but no JobReady.
LEMMA AskQueue ==
    ASSUME TypeOK, NEW c \in Clients, NEW todo \in SUBSET Disks,
           NEW op \in {"TakeSnapshot", "CommitSnapshot"}, Ask(c, op, todo)
    PROVE  /\ queue' \in Seq(Command)
           /\ \A i \in DOMAIN queue' : \/ i \in DOMAIN queue /\ queue'[i] = queue[i]
                                       \/ queue'[i].op = op
<1>1. PICK s \in SetToSeqs(todo) :
        queue' = queue \o [i \in DOMAIN s |-> [op |-> op, disk |-> s[i], ack |-> c]]
  BY DEF Ask
<1>2. Cardinality(todo) \in Nat
  BY DisksAssumption, FS_Subset, FS_CardinalityType
<1>3. s \in [1..Cardinality(todo) -> todo]
  BY DEF SetToSeqs
<1> DEFINE e == [i \in DOMAIN s |-> [op |-> op, disk |-> s[i], ack |-> c]]
<1>4. e \in Seq(Command) /\ \A i \in DOMAIN e : e[i].op = op
  BY <1>2, <1>3 DEF Command
<1> HIDE DEF e
<1>5. queue \in Seq(Command) /\ queue' = queue \o e
  BY <1>1 DEF TypeOK, e
<1> QED
  BY <1>4, <1>5

-----------------------------------------------------------------------------
-----------------------------------------------------------------------------
(* Types *)

LEMMA EmptyTypes == <<>> \in Seq(Command) /\ NotRemoving \in Idle
BY DEF NotRemoving, Idle

LEMMA InitTypes == Init => TypeOK
<1> SUFFICES ASSUME Init PROVE TypeOK
  OBVIOUS
<1>1. at \in [Clients -> Places] /\ cmd \in [Clients -> Kinds]
  BY DEF Init, Places
<1>2. before \in [Clients -> SUBSET Clients] /\ after \in [Clients -> SUBSET Clients]
  BY DEF Init
<1>3. owed \in [Clients -> SUBSET Disks] /\ pending \in [Disks -> Clients \cup {Nobody}]
  BY DEF Init
<1> QED
  BY <1>1, <1>2, <1>3, EmptyTypes DEF Init, TypeOK

LEMMA DownTypes == TypeOK /\ Down => TypeOK'
<1> SUFFICES ASSUME TypeOK, Down PROVE TypeOK'
  OBVIOUS
<1>1. at' \in [Clients -> Places] /\ owed' \in [Clients -> SUBSET Disks]
  BY DEF Down, TypeOK, Places
<1>2. pending' \in [Disks -> Clients \cup {Nobody}]
  BY DEF Down
<1>3. UNCHANGED <<file, cmd, before, after, calm>> /\ up' = FALSE /\ left' \in BOOLEAN /\ redirected' = {} /\ dropped' = {}
      /\ job' = [d \in Disks |-> "none"] /\ queue' = <<>> /\ removing' = NotRemoving
  BY DEF Down
<1> QED
  BY <1>1, <1>2, <1>3, EmptyTypes DEF TypeOK

LEMMA RequestTypes ==
    ASSUME TypeOK, NEW c \in Clients, Request(c)
    PROVE  TypeOK'
<1>1. UNCHANGED <<up, left, file, qemu, pending, removing, cmd, dropped, calm>>
  BY DEF Request, EnterBackupMode, LeaveBackupMode, GoOffline, Ask, driver
<1>2. CASE GoOffline(c)
  BY <1>1, <1>2 DEF Request, GoOffline, TypeOK, AtWork, Places, qemu, driver
<1>3. CASE EnterBackupMode(c) \/ LeaveBackupMode(c)
  <2>1. PICK op \in {"TakeSnapshot", "CommitSnapshot"}, todo \in SUBSET Disks : Ask(c, op, todo)
    BY <1>3 DEF EnterBackupMode, LeaveBackupMode, TypeOK
  <2>2. queue' \in Seq(Command)
    BY <2>1, AskQueue
  <2> QED
    BY <1>1, <2>1, <2>2 DEF Request, Ask, TypeOK, AtWork, Places, qemu
<1> QED
  BY <1>2, <1>3 DEF Request

LEMMA MonitorTypes ==
    ASSUME TypeOK, MonitorNext
    PROVE  TypeOK'
<1>1. CASE TakeSnapshot
  <2>1. Take("TakeSnapshot") /\ UNCHANGED <<up, left, job, pending, removing, cmd, at, before, after, calm>>
    BY <1>1 DEF TakeSnapshot
  <2>2. Head(queue).disk \in Disks /\ Head(queue).ack \in Clients
    BY <2>1, TakeQueue DEF Take, Command
  <2>3. file' \subseteq Disks /\ redirected' \subseteq Disks
    BY <1>1, <2>2 DEF TakeSnapshot, TypeOK
  <2>4. owed' \in [Clients -> SUBSET Disks] /\ dropped' \subseteq Clients
    BY <1>1, <2>2 DEF TakeSnapshot, TypeOK, Received, Drop
  <2> QED
    BY <2>1, <2>3, <2>4, TakeQueue DEF TypeOK
<1>2. CASE CommitSnapshot
  <2>1. Take("CommitSnapshot") /\ UNCHANGED <<up, left, file, redirected, removing, cmd, at, before, after, calm>>
    BY <1>2 DEF CommitSnapshot
  <2>2. Head(queue).disk \in Disks /\ Head(queue).ack \in Clients
    BY <2>1, TakeQueue DEF Take, Command
  <2> QED
    BY <1>2, <2>1, <2>2, TakeQueue DEF CommitSnapshot, TypeOK, Drop
<1>3. CASE JobReady
  <2> DEFINE d == Head(queue).disk
             c == pending[d]
  <2>1. Take("JobReady") /\ UNCHANGED <<up, left, file, redirected, cmd, at, before, after, calm>>
    BY <1>3 DEF JobReady
  <2>2. d \in Disks /\ c \in Clients
    BY <1>3, <2>1, TakeQueue DEF JobReady, Take, Command, TypeOK
  <2>3. /\ pending' = [pending EXCEPT ![d] = Nobody]
        /\ \/ /\ job' = [job EXCEPT ![d] = "completing"]
              /\ removing' = [disk |-> d, ack |-> c] /\ UNCHANGED <<owed, dropped>>
           \/ Drop(c) /\ UNCHANGED <<job, removing>>
    BY <1>3 DEF JobReady
  <2> HIDE DEF d, c
  <2>4. job' \in [Disks -> {"none", "running", "ready", "completing"}]
        /\ pending' \in [Disks -> Clients \cup {Nobody}]
    BY <2>2, <2>3 DEF TypeOK
  <2>5. removing' \in Idle \cup [disk : Disks, ack : Clients]
    BY <2>2, <2>3 DEF TypeOK
  <2>6. UNCHANGED owed /\ dropped' \subseteq Clients
    BY <2>2, <2>3 DEF TypeOK, Drop
  <2> QED
    BY <2>1, <2>4, <2>5, <2>6, TakeQueue DEF TypeOK
<1>4. CASE RemoveSnapshot
  BY <1>4, EmptyTypes DEF RemoveSnapshot, Received, TypeOK, Idle, NotRemoving, qemu
<1> QED
  BY <1>1, <1>2, <1>3, <1>4 DEF MonitorNext

LEMMA JobTypes ==
    ASSUME TypeOK, NEW d \in Disks, JobNext(d)
    PROVE  TypeOK'
<1>1. CASE BlockJobReady(d)
  <2>1. [op |-> "JobReady", disk |-> d, ack |-> Nobody] \in Command
    BY DEF Command
  <2> QED
    BY <1>1, <2>1, AppendQueue DEF BlockJobReady, TypeOK, clients
<1>2. CASE JobFails(d)
  BY <1>2 DEF JobFails, TypeOK, driver, clients
<1>3. CASE JobCompletes(d)
  BY <1>3 DEF JobCompletes, TypeOK, driver, clients
<1> QED
  BY <1>1, <1>2, <1>3 DEF JobNext

LEMMA OfflineTypes ==
    ASSUME TypeOK, NEW c \in Clients, OfflineNext(c)
    PROVE  TypeOK'
<1>1. UNCHANGED <<up, left, qemu, driver, cmd, dropped, before, after, calm>>
  BY DEF OfflineNext, OfflineCreate, OfflineCommit, OfflineRemove, OfflineFinish
<1>2. file' \subseteq Disks
  <2>1. CASE OfflineCreate(c)
    <3>1. OfflineDisk(c) \in Disks
      BY <2>1 DEF OfflineCreate, OfflineDisk, TypeOK
    <3> QED
      BY <2>1, <3>1 DEF OfflineCreate, TypeOK
  <2> QED
    BY <2>1 DEF OfflineNext, OfflineCommit, OfflineRemove, OfflineFinish, TypeOK
<1>3. at' \in [Clients -> Places]
  <2>1. \/ UNCHANGED at
        \/ \E p \in {"done", "failed", "offline", "removing"} : at' = [at EXCEPT ![c] = p]
    BY DEF OfflineNext, OfflineCreate, OfflineCommit, OfflineRemove, OfflineFinish
  <2> QED
    BY <2>1 DEF TypeOK, Places
<1>4. owed' \in [Clients -> SUBSET Disks]
  <2>1. UNCHANGED owed \/ \E d : owed' = [owed EXCEPT ![c] = @ \ {d}]
    BY DEF OfflineNext, OfflineCreate, OfflineCommit, OfflineRemove, OfflineFinish
  <2> QED
    BY <2>1 DEF TypeOK
<1> QED
  BY <1>1, <1>2, <1>3, <1>4 DEF TypeOK, qemu, driver

LEMMA NextTypes == TypeOK /\ [Next]_vars => TypeOK'
<1> SUFFICES ASSUME TypeOK, [Next]_vars PROVE TypeOK'
  OBVIOUS
<1>1. CASE Start
  BY <1>1 DEF Start, TypeOK, driver, clients
<1>2. CASE Stop \/ Panic
  BY <1>2, DownTypes DEF Stop, Panic, JobReadyPanics, RemovePanics
<1>7. CASE QemuEnds
  BY <1>7 DEF QemuEnds, TypeOK, qemu, driver, clients
<1>3. ASSUME NEW c \in Clients, Request(c) \/ Acknowledge(c) \/ OfflineNext(c)
      PROVE  TypeOK'
  <2>1. CASE Acknowledge(c)
    BY <2>1 DEF Acknowledge, TypeOK, Places, qemu, driver
  <2> QED
    BY <1>3, <2>1, RequestTypes, OfflineTypes
<1>4. CASE MonitorNext
  BY <1>4, MonitorTypes
<1>5. ASSUME NEW d \in Disks, JobNext(d) PROVE TypeOK'
  BY <1>5, JobTypes
<1>6. CASE UNCHANGED vars
  BY <1>6 DEF vars, TypeOK, qemu, driver, clients
<1> QED
  BY <1>1, <1>2, <1>3, <1>4, <1>5, <1>6, <1>7 DEF Next

-----------------------------------------------------------------------------
(* Calm behaviours *)

LEMMA InitEstablishes == Init => CalmInv
<1> SUFFICES ASSUME Init PROVE CalmInv
  OBVIOUS
<1>1. TypeOK
  BY InitTypes
<1>2. Offline = {}
  BY DEF Init, Offline
<1>3. JobInv
  BY DEF Init, JobInv, JobInvOf, ReadyFor
<1> QED
  BY <1>1, <1>2, <1>3 DEF Init, CalmInv, RemovalInv, TurnInv, FileFollowsDisk

\* What an invariant about jobs and files says is left alone by whoever touches
\* neither the queue nor QEMU nor the files.
LEMMA QuietStep ==
    ASSUME CalmInv, TypeOK', calm', UNCHANGED <<up, file, qemu, driver>>, Offline' \subseteq Offline
    PROVE  CalmInv'
BY DEF CalmInv, JobInv, JobInvOf, ReadyFor, RemovalInv, TurnInv, FileFollowsDisk, qemu, driver

LEMMA DownStep ==
    ASSUME CalmInv, TypeOK', calm', Down
    PROVE  CalmInv'
BY DEF CalmInv, Down, JobInv, JobInvOf, ReadyFor, RemovalInv, TurnInv, FileFollowsDisk

\* Whoever starts Windows under a client that works on the files ends the calm.
LEMMA StartStep ==
    ASSUME CalmInv, TypeOK', calm', Start
    PROVE  CalmInv'
<1>1. Offline' = {}
  BY DEF Start, Offline, clients
<1> QED
  BY <1>1 DEF CalmInv, Start, driver, JobInv, JobInvOf, ReadyFor, RemovalInv, TurnInv, FileFollowsDisk

LEMMA RequestStep ==
    ASSUME CalmInv, TypeOK', calm', NEW c \in Clients, Request(c)
    PROVE  CalmInv'
<1> USE DEF CalmInv
<1>1. UNCHANGED <<up, file, qemu, pending, removing>>
  BY DEF Request, EnterBackupMode, LeaveBackupMode, GoOffline, Ask, driver
<1>2. CASE ~up
  <2>1. UNCHANGED driver
    BY <1>2 DEF Request, EnterBackupMode, LeaveBackupMode, GoOffline, Ask
  <2> QED
    BY <1>1, <1>2, <2>1
       DEF JobInv, JobInvOf, ReadyFor, RemovalInv, TurnInv, FileFollowsDisk, qemu, driver
<1>3. CASE up
  <2>1. PICK op \in {"TakeSnapshot", "CommitSnapshot"}, todo \in SUBSET Disks : Ask(c, op, todo)
    BY <1>3 DEF Request, EnterBackupMode, LeaveBackupMode, GoOffline, TypeOK
  <2>2. \A i \in DOMAIN queue' : queue'[i].op = "JobReady" =>
          i \in DOMAIN queue /\ queue'[i] = queue[i]
    BY <2>1, AskQueue
  <2>3. JobInv'
    BY <1>1, <2>2 DEF JobInv, JobInvOf, ReadyFor, qemu
  <2>4. Offline' \subseteq Offline
    BY <2>1 DEF Ask, Offline, TypeOK
  <2> QED
    BY <1>1, <1>3, <2>3, <2>4 DEF RemovalInv, TurnInv, FileFollowsDisk, qemu
<1> QED
  BY <1>2, <1>3 DEF TypeOK

-----------------------------------------------------------------------------
(* The command loop *)

LEMMA RunsWhenUp ==
    ASSUME CalmInv, ~up
    PROVE  queue = <<>> /\ removing = NotRemoving /\ \A d \in Disks : job[d] = "none"
BY DEF CalmInv, TurnInv

LEMMA TakeSnapshotStep ==
    ASSUME CalmInv, TypeOK', calm', TakeSnapshot
    PROVE  CalmInv'
<1> USE DEF CalmInv
<1>1. Take("TakeSnapshot") /\ UNCHANGED <<up, job, pending, removing, cmd, at, before, after>>
  BY DEF TakeSnapshot
<1> DEFINE d == Head(queue).disk
           c == Head(queue).ack
<1>2. d \in Disks /\ c \in Clients /\ up
  BY <1>1, TakeQueue, RunsWhenUp DEF Take, Command, TypeOK
<1>3. \/ /\ d \notin redirected /\ job[d] = "none"
         /\ file' = file \cup {d} /\ redirected' = redirected \cup {d} /\ Received(d, c)
      \/ UNCHANGED <<file, redirected>> /\ Drop(c)
  BY DEF TakeSnapshot
<1> HIDE DEF d, c
<1>4. JobInv'
  BY <1>1, <1>3, TakeQueue DEF JobInv, JobInvOf, ReadyFor
<1>5. RemovalInv' /\ FileFollowsDisk'
  BY <1>1, <1>3 DEF Take, RemovalInv, FileFollowsDisk
<1> QED
  BY <1>1, <1>2, <1>4, <1>5 DEF TurnInv, Offline

LEMMA CommitSnapshotStep ==
    ASSUME CalmInv, TypeOK', calm', CommitSnapshot
    PROVE  CalmInv'
<1> USE DEF CalmInv
<1>1. Take("CommitSnapshot") /\ UNCHANGED <<up, file, redirected, removing, cmd, at, before, after>>
  BY DEF CommitSnapshot
<1> DEFINE d == Head(queue).disk
           c == Head(queue).ack
<1>2. d \in Disks /\ c \in Clients /\ c # Nobody /\ up
  BY <1>1, TakeQueue, RunsWhenUp, NobodyAssumption DEF Take, Command, TypeOK
<1>3. /\ pending' = [pending EXCEPT ![d] = c] /\ Drop(pending[d])
      /\ \/ d \in redirected /\ job[d] = "none" /\ job' = [job EXCEPT ![d] = "running"]
         \/ UNCHANGED job
  BY DEF CommitSnapshot
<1> HIDE DEF d, c
<1>4. d \in redirected /\ job[d] = "none" => d \in file
  BY <1>1, <1>2, NobodyAssumption DEF FileFollowsDisk, Take, NotRemoving
<1>5. JobInv'
  <2> SUFFICES ASSUME NEW e \in Disks PROVE JobInvOf(e)'
    BY DEF JobInv
  <2>1. CASE e # d
    BY <1>1, <1>2, <1>3, <2>1, TakeQueue DEF JobInv, JobInvOf, ReadyFor, TypeOK
  <2>2. CASE e = d
    BY <1>1, <1>2, <1>3, <1>4, <2>2, TakeQueue DEF JobInv, JobInvOf, ReadyFor, TypeOK
  <2> QED
    BY <2>1, <2>2
<1>6. RemovalInv' /\ FileFollowsDisk'
  BY <1>1, <1>2, <1>3 DEF Take, RemovalInv, FileFollowsDisk, TypeOK
<1> QED
  BY <1>1, <1>2, <1>5, <1>6 DEF TurnInv, Offline

LEMMA JobReadyStep ==
    ASSUME CalmInv, TypeOK', calm', JobReady
    PROVE  CalmInv'
<1> USE DEF CalmInv
<1>1. Take("JobReady") /\ UNCHANGED <<up, file, redirected, cmd, at, before, after>>
  BY DEF JobReady
<1> DEFINE d == Head(queue).disk
           c == pending[d]
<1>2. d \in Disks /\ c \in Clients /\ up
  BY <1>1, TakeQueue, RunsWhenUp, NobodyAssumption DEF JobReady, Take, Command, TypeOK
<1>3. ReadyFor(1, d) /\ 1 \in DOMAIN queue
  BY <1>1, TakeQueue DEF Take, ReadyFor
<1>4. /\ pending' = [pending EXCEPT ![d] = Nobody]
      /\ \/ /\ job[d] = "ready" /\ job' = [job EXCEPT ![d] = "completing"]
            /\ removing' = [disk |-> d, ack |-> c] /\ UNCHANGED <<owed, dropped>>
         \/ Drop(c) /\ UNCHANGED <<job, removing>>
  BY DEF JobReady
<1>5. job[d] = "ready" /\ d \in file /\ \A j \in DOMAIN queue : ReadyFor(j, d) => j = 1
  BY <1>2, <1>3 DEF JobInv, JobInvOf
<1> HIDE DEF d, c
<1>6. JobInv'
  <2> SUFFICES ASSUME NEW e \in Disks PROVE JobInvOf(e)'
    BY DEF JobInv
  <2>1. CASE e # d
    BY <1>1, <1>2, <1>4, <2>1, TakeQueue DEF JobInv, JobInvOf, ReadyFor, TypeOK
  <2>2. CASE e = d
    <3>1. ASSUME NEW i \in DOMAIN queue', ReadyFor(i, e)' PROVE FALSE
      <4>1. i + 1 \in DOMAIN queue /\ i + 1 # 1 /\ queue'[i] = queue[i + 1]
        BY <1>1, TakeQueue
      <4>2. ReadyFor(i + 1, d)
        BY <2>2, <3>1, <4>1 DEF ReadyFor
      <4> QED
        BY <1>5, <4>1, <4>2
    <3>2. job'[e] # "running" /\ (job'[e] = "ready" => e \in file' \cap redirected')
      BY <1>1, <1>2, <1>4, <1>5, <2>2 DEF JobInv, JobInvOf, TypeOK
    <3> QED
      BY <3>1, <3>2 DEF JobInvOf
  <2> QED
    BY <2>1, <2>2
<1>7. RemovalInv' /\ FileFollowsDisk'
  <2>1. removing = NotRemoving
    BY <1>1 DEF Take
  <2>2. CASE job' = [job EXCEPT ![d] = "completing"] /\ removing' = [disk |-> d, ack |-> c]
    <3>1. removing'.disk = d /\ d \in file' /\ job'[d] = "completing"
      BY <1>1, <1>2, <1>5, <2>2 DEF TypeOK
    <3>2. \A e \in Disks : e # d => job'[e] = job[e] /\ removing.disk # e
      BY <1>2, <2>1, <2>2, NobodyAssumption DEF TypeOK, NotRemoving
    <3>3. file \ redirected = {} /\ \A e \in redirected \ file : job[e] = "completing"
      BY <1>2, <2>1, NobodyAssumption DEF FileFollowsDisk, TypeOK, NotRemoving
    <3>4. FileFollowsDisk'
      BY <1>1, <3>1, <3>2, <3>3 DEF FileFollowsDisk, TypeOK
    <3>5. RemovalInv'
      BY <1>1, <3>1, <3>2 DEF RemovalInv
    <3> QED
      BY <3>4, <3>5
  <2>3. CASE UNCHANGED <<job, removing>>
    BY <1>1, <2>3 DEF RemovalInv, FileFollowsDisk
  <2> QED
    BY <1>4, <2>2, <2>3
<1> QED
  BY <1>1, <1>2, <1>6, <1>7 DEF TurnInv, Offline

LEMMA RemoveSnapshotStep ==
    ASSUME CalmInv, TypeOK', calm', RemoveSnapshot
    PROVE  CalmInv'
<1> USE DEF CalmInv
<1>1. removing # NotRemoving /\ removing.disk \in Disks /\ removing.ack \in Clients /\ up
  BY RunsWhenUp DEF RemoveSnapshot, TypeOK, Idle, NotRemoving
<1>2. /\ file' = file \ {removing.disk} /\ removing' = NotRemoving
      /\ owed' = [owed EXCEPT ![removing.ack] = @ \ {removing.disk}]
      /\ UNCHANGED <<up, qemu, queue, pending, cmd, at, dropped, before, after>>
  BY DEF RemoveSnapshot, Received
<1>3. job[removing.disk] \notin {"running", "ready"}
  BY <1>1 DEF RemovalInv
<1>4. JobInv'
  BY <1>2, <1>3 DEF JobInv, JobInvOf, ReadyFor, qemu
<1>5. RemovalInv' /\ FileFollowsDisk'
  BY <1>1, <1>2 DEF RemovalInv, FileFollowsDisk, qemu
<1> QED
  BY <1>1, <1>2, <1>4, <1>5 DEF TurnInv, Offline, qemu

LEMMA NoPanic ==
    ASSUME CalmInv
    PROVE  NeverPanics
BY TakeQueue DEF CalmInv, TypeOK, Command, JobInv, JobInvOf, ReadyFor, RemovalInv, NeverPanics

-----------------------------------------------------------------------------
(* Block jobs *)

LEMMA JobStep ==
    ASSUME CalmInv, TypeOK', calm', NEW d \in Disks, JobNext(d)
    PROVE  CalmInv'
<1> USE DEF CalmInv
<1>1. job[d] # "none" /\ up
  BY RunsWhenUp DEF JobNext, BlockJobReady, JobFails, JobCompletes
<1>2. CASE BlockJobReady(d)
  <2> DEFINE e == [op |-> "JobReady", disk |-> d, ack |-> Nobody]
  <2>1. e \in Command /\ queue' = Append(queue, e)
    BY <1>2 DEF BlockJobReady, Command
  <2>2. /\ job[d] = "running" /\ job' = [job EXCEPT ![d] = "ready"]
        /\ UNCHANGED <<up, file, redirected, pending, removing, clients>>
    BY <1>2 DEF BlockJobReady
  <2>4. e.op = "JobReady" /\ e.disk = d
    OBVIOUS
  <2> HIDE DEF e
  <2>5. JobInv'
    BY <2>1, <2>2, <2>4, AppendQueue DEF JobInv, JobInvOf, ReadyFor, TypeOK
  <2>6. RemovalInv' /\ FileFollowsDisk'
    BY <2>2 DEF RemovalInv, FileFollowsDisk, TypeOK
  <2> QED
    BY <1>1, <2>2, <2>5, <2>6 DEF TurnInv, Offline, clients
<1>3. CASE JobFails(d)
  <2>1. job[d] = "running" /\ job' = [job EXCEPT ![d] = "none"]
        /\ UNCHANGED <<up, file, redirected, driver, clients>>
    BY <1>3 DEF JobFails
  <2>3. JobInv'
    BY <2>1 DEF JobInv, JobInvOf, ReadyFor, TypeOK, driver
  <2>4. RemovalInv' /\ FileFollowsDisk'
    BY <2>1 DEF RemovalInv, FileFollowsDisk, TypeOK, driver
  <2> QED
    BY <1>1, <2>1, <2>3, <2>4 DEF TurnInv, Offline, clients
<1>4. CASE JobCompletes(d)
  <2>1. /\ job[d] = "completing" /\ job' = [job EXCEPT ![d] = "none"]
        /\ redirected' = redirected \ {d}
        /\ UNCHANGED <<up, file, driver, clients>>
    BY <1>4 DEF JobCompletes
  <2>3. JobInv'
    BY <2>1 DEF JobInv, JobInvOf, ReadyFor, TypeOK, driver
  <2>4. RemovalInv' /\ FileFollowsDisk'
    BY <2>1 DEF RemovalInv, FileFollowsDisk, TypeOK, driver
  <2> QED
    BY <1>1, <2>1, <2>3, <2>4 DEF TurnInv, Offline, clients
<1> QED
  BY <1>2, <1>3, <1>4 DEF JobNext

-----------------------------------------------------------------------------
(* Clients at work, and the theorems *)

\* Windows is down while a client works, so the files are its own.
LEMMA OfflineStep ==
    ASSUME CalmInv, TypeOK', calm', NEW c \in Clients, OfflineNext(c)
    PROVE  CalmInv'
<1> USE DEF CalmInv
<1>1. UNCHANGED <<up, qemu, driver, cmd, dropped, before, after>>
  BY DEF OfflineNext, OfflineCreate, OfflineCommit, OfflineRemove, OfflineFinish
<1>2. c \in Offline /\ ~up
  BY DEF OfflineNext, OfflineCreate, OfflineCommit, OfflineRemove, OfflineFinish, Offline, TurnInv
<1>3. \A d \in Disks : job[d] = "none"
  BY <1>2, RunsWhenUp
<1> QED
  BY <1>1, <1>2, <1>3
     DEF JobInv, JobInvOf, ReadyFor, RemovalInv, TurnInv, FileFollowsDisk, qemu, driver

LEMMA AcknowledgeStep ==
    ASSUME CalmInv, TypeOK', calm', NEW c \in Clients, Acknowledge(c)
    PROVE  CalmInv'
<1>1. UNCHANGED <<up, file, qemu, driver>> /\ at' = [at EXCEPT ![c] = "done"]
  BY DEF Acknowledge
<1>2. Offline' \subseteq Offline
  BY <1>1 DEF Offline, CalmInv, TypeOK
<1> QED
  BY <1>1, <1>2, QuietStep

LEMMA CalmPreserved ==
    ASSUME CalmInv, TypeOK', calm', [Next]_vars
    PROVE  CalmInv'
<1>1. CASE Start
  BY <1>1, StartStep
<1>2. CASE Stop \/ Panic
  BY <1>2, DownStep DEF Stop, Panic, JobReadyPanics, RemovePanics
<1>7. CASE QemuEnds
  BY <1>7, QuietStep DEF QemuEnds, Offline, clients
<1>3. ASSUME NEW c \in Clients, Request(c) \/ Acknowledge(c) \/ OfflineNext(c)
      PROVE  CalmInv'
  BY <1>3, RequestStep, AcknowledgeStep, OfflineStep
<1>4. CASE MonitorNext
  BY <1>4, TakeSnapshotStep, CommitSnapshotStep, JobReadyStep, RemoveSnapshotStep DEF MonitorNext
<1>5. ASSUME NEW d \in Disks, JobNext(d) PROVE CalmInv'
  BY <1>5, JobStep
<1>6. CASE UNCHANGED vars
  BY <1>6, QuietStep DEF vars, Offline, clients, qemu, driver
<1> QED
  BY <1>1, <1>2, <1>3, <1>4, <1>5, <1>6, <1>7 DEF Next

\* The calm never comes back.
LEMMA CalmEnds == [Next]_vars /\ calm' => calm
BY DEF Next, vars, clients, Start, Stop, QemuEnds, Panic, JobReadyPanics, RemovePanics, Down,
       Request, Acknowledge, OfflineNext, OfflineCreate, OfflineCommit, OfflineRemove, OfflineFinish,
       MonitorNext, TakeSnapshot, CommitSnapshot, JobReady, RemoveSnapshot,
       JobNext, BlockJobReady, JobFails, JobCompletes

\* The inductive invariant: the types always, and as long as it is calm the bond
\* between jobs, table, queue, files and redirections.
THEOREM BackupInvariant == Spec => []BackupInv
<1>1. Init => BackupInv
  BY InitTypes, InitEstablishes DEF BackupInv
<1>2. BackupInv /\ [Next]_vars => BackupInv'
  BY NextTypes, CalmPreserved, CalmEnds DEF BackupInv
<1> QED
  BY <1>1, <1>2, PTL DEF Spec

\* Requests, commands, jobs and their failures keep every variable in its type.
THEOREM BackupTypeCorrect == Spec => []TypeOK
<1>1. BackupInv => TypeOK
  BY DEF BackupInv
<1> QED
  BY <1>1, BackupInvariant, PTL

\* monitor/mod.rs:191 and :199: whatever the clients ask for and QEMU refuses, the
\* unwrap() of the table entry and the removal of the file succeed, as long as it
\* is calm.
THEOREM DriverNeverPanics == Spec => []NeverPanics
<1>1. BackupInv => NeverPanics
  <2>1. CASE calm
    BY <2>1, NoPanic DEF BackupInv
  <2> QED
    BY <2>1 DEF NeverPanics
<1> QED
  BY <1>1, BackupInvariant, PTL

\* controller.rs:444, :467 and qemu.rs:302: the snapshot files tell which disks are
\* redirected, as long as it is calm, but between the acceptance of
\* block-job-complete and the removal (monitor/mod.rs:192-199), and between the
\* removal and the end of the job.
THEOREM FilesFollowDisks == Spec => []FileFollowsDisk
<1>1. BackupInv => FileFollowsDisk
  BY DEF BackupInv, CalmInv, FileFollowsDisk
<1> QED
  BY <1>1, BackupInvariant, PTL
=============================================================================
