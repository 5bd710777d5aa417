-------------------------------- MODULE Backup --------------------------------
(***************************************************************************)
(* Backup mode: `windows-gaming backup start` redirects the disks to       *)
(* snapshot files, `backup stop` commits the files and removes them.       *)
(* While Windows runs, the driver does it with QMP commands: the handlers  *)
(* of the controller look at the files and queue one command per disk,     *)
(* the monitor's command loop executes them one at a time, QEMU's block    *)
(* jobs run beside it, and a task per request waits for the                *)
(* acknowledgements of all its disks.  While Windows is down, the client   *)
(* works on the files itself.                                              *)
(*                                                                         *)
(* Disks are those with a snapshot file configured; their order plays no   *)
(* role.  A client is one run of the program and makes one request.        *)
(***************************************************************************)
EXTENDS Naturals, Sequences, FiniteSets, SequencesExt

CONSTANTS
    Disks,
    Clients,
    Nobody

ASSUME DisksAssumption == IsFiniteSet(Disks)
ASSUME NobodyAssumption == Nobody \notin Clients \cup Disks

VARIABLES
    up,        \* the driver and its QEMU run
    left,      \* a QEMU that outlived its driver runs on, and nobody talks to it
    file,      \* the snapshot files that exist
    redirected,\* the disks whose writes QEMU sends to the snapshot
    job,       \* QEMU's commit job of each disk
    queue,     \* the monitor's commands
    pending,   \* pending_disk_commits: who is told when the disk's job is done
    removing,  \* the disk and client of a JobReady that is about to remove the file
    cmd,       \* what each client wants
    at,        \* where each client is
    owed,      \* the disks each client's task, or offline loop, still waits for
    dropped,   \* the clients that an acknowledgement was dropped for
    before,    \* history: who was at work when the client came
    after,     \* history: who came after the client
    calm       \* history: no job failed once it was ready, and Windows was not
               \* started while a client worked on the files

qemu == <<redirected, job>>
driver == <<queue, pending, removing>>
clients == <<cmd, at, owed, dropped, before, after>>
vars == <<up, left, file, qemu, driver, clients, calm>>

Command == [op : {"TakeSnapshot", "CommitSnapshot"}, disk : Disks, ack : Clients]
             \cup [op : {"JobReady"}, disk : Disks, ack : {Nobody}]
Kinds == {"enter", "leave"}
Places == {"idle", "waiting", "offline", "removing", "done", "failed"}
AtWork == {c \in Clients : at[c] \in {"waiting", "offline", "removing"}}
Offline == {c \in Clients : at[c] \in {"offline", "removing"}}

Idle == [disk : {Nobody}, ack : {Nobody}]

TypeOK ==
    /\ up \in BOOLEAN /\ left \in BOOLEAN
    /\ file \subseteq Disks /\ redirected \subseteq Disks
    /\ job \in [Disks -> {"none", "running", "ready", "completing"}]
    /\ queue \in Seq(Command)
    /\ pending \in [Disks -> Clients \cup {Nobody}]
    /\ removing \in Idle \cup [disk : Disks, ack : Clients]
    /\ cmd \in [Clients -> Kinds] /\ at \in [Clients -> Places]
    /\ owed \in [Clients -> SUBSET Disks]
    /\ dropped \subseteq Clients
    /\ before \in [Clients -> SUBSET Clients] /\ after \in [Clients -> SUBSET Clients]
    /\ calm \in BOOLEAN

NotRemoving == [disk |-> Nobody, ack |-> Nobody]

Init ==
    /\ up = FALSE /\ left = FALSE /\ redirected = {} /\ job = [d \in Disks |-> "none"]
    /\ file \in SUBSET Disks
    /\ queue = <<>> /\ pending = [d \in Disks |-> Nobody] /\ removing = NotRemoving
    /\ cmd \in [Clients -> Kinds]
    /\ at = [c \in Clients |-> "idle"]
    /\ owed = [c \in Clients |-> {}] /\ dropped = {}
    /\ before = [c \in Clients |-> {}] /\ after = [c \in Clients |-> {}]
    /\ calm = TRUE

-------------------------------------------------------------------------------
(* Windows comes and goes. *)

\* QEMU is started on the snapshot of every disk that has one.  It cannot lock
\* the disks while another QEMU has them.
Start ==
    /\ ~up /\ ~left /\ up' = TRUE
    /\ calm' = (calm /\ Offline = {})
    /\ redirected' = file
    /\ UNCHANGED <<left, file, job, driver, clients>>

\* The driver and all its work end; a client that waits reads the end of its
\* stream.  QEMU ended before it, or runs on: after an error the driver waits for
\* it, with the control socket closed.  What that QEMU still does to its disks
\* shows in no file and is seen by nobody.
Down ==
    /\ up' = FALSE /\ left' \in BOOLEAN
    /\ redirected' = {} /\ job' = [d \in Disks |-> "none"]
    /\ queue' = <<>> /\ pending' = [d \in Disks |-> Nobody] /\ removing' = NotRemoving
    /\ at' = [c \in Clients |-> IF at[c] = "waiting" THEN "failed" ELSE at[c]]
    /\ owed' = [c \in Clients |-> IF at[c] = "waiting" THEN {} ELSE owed[c]]
    /\ dropped' = {}
    /\ UNCHANGED <<file, cmd, before, after, calm>>

Stop == up /\ Down

QemuEnds ==
    /\ left /\ left' = FALSE
    /\ UNCHANGED <<up, file, qemu, driver, clients, calm>>

-------------------------------------------------------------------------------
(* The requests. *)

\* One command for each disk of todo, in the same step as the look at the files.
Ask(c, op, todo) ==
    /\ up
    /\ at' = [at EXCEPT ![c] = "waiting"]
    /\ owed' = [owed EXCEPT ![c] = todo]
    /\ \E s \in SetToSeqs(todo) :
         queue' = queue \o [i \in DOMAIN s |-> [op |-> op, disk |-> s[i], ack |-> c]]
    /\ UNCHANGED <<pending, removing>>

EnterBackupMode(c) == cmd[c] = "enter" /\ Ask(c, "TakeSnapshot", Disks \ file)
LeaveBackupMode(c) == cmd[c] = "leave" /\ Ask(c, "CommitSnapshot", file)

\* Nobody listens at the control socket: the client walks through the disks.
GoOffline(c) ==
    /\ ~up
    /\ at' = [at EXCEPT ![c] = "offline"]
    /\ owed' = [owed EXCEPT ![c] = Disks]
    /\ UNCHANGED driver

Request(c) ==
    /\ at[c] = "idle"
    /\ EnterBackupMode(c) \/ LeaveBackupMode(c) \/ GoOffline(c)
    /\ before' = [before EXCEPT ![c] = AtWork]
    /\ after' = [b \in Clients |-> after[b] \cup (IF at[b] = "idle" THEN {} ELSE {c})]
    /\ UNCHANGED <<up, left, file, qemu, cmd, dropped, calm>>

\* The task of the request has all its acknowledgements and passes one on.
Acknowledge(c) ==
    /\ at[c] = "waiting" /\ owed[c] = {} /\ c \notin dropped
    /\ at' = [at EXCEPT ![c] = "done"]
    /\ UNCHANGED <<up, left, file, qemu, driver, cmd, owed, dropped, before, after, calm>>

-------------------------------------------------------------------------------
(* The monitor's command loop.  QEMU may refuse any command. *)

\* The loop takes the next command when the handler of the last has returned.
Take(op) == removing = NotRemoving /\ queue # <<>> /\ Head(queue).op = op /\ queue' = Tail(queue)

Received(d, c) == owed' = [owed EXCEPT ![c] = @ \ {d}] /\ UNCHANGED dropped
\* Fault: there was always an entry to take an acknowledgement from.
DropBlindly(c) == dropped' = dropped \cup {c} /\ UNCHANGED owed
Drop(c) == dropped' = dropped \cup ({c} \ {Nobody}) /\ UNCHANGED owed

\* Fault: the client is told whatever QEMU says.
TakeSnapshotAcksAnyway ==
    /\ Take("TakeSnapshot")
    /\ LET d == Head(queue).disk  c == Head(queue).ack IN
         /\ \/ /\ d \notin redirected /\ job[d] = "none"
               /\ file' = file \cup {d} /\ redirected' = redirected \cup {d}
            \/ UNCHANGED <<file, redirected>>
         /\ Received(d, c)
    /\ UNCHANGED <<up, left, job, pending, removing, cmd, at, before, after, calm>>

TakeSnapshot ==
    /\ Take("TakeSnapshot")
    /\ LET d == Head(queue).disk  c == Head(queue).ack IN
         \/ /\ d \notin redirected /\ job[d] = "none"
            /\ file' = file \cup {d} /\ redirected' = redirected \cup {d}
            /\ Received(d, c)
         \/ UNCHANGED <<file, redirected>> /\ Drop(c)
    /\ UNCHANGED <<up, left, job, pending, removing, cmd, at, before, after, calm>>

\* Fault: the entry is taken back when QEMU refuses.
CommitSnapshotCleansUp ==
    /\ Take("CommitSnapshot")
    /\ LET d == Head(queue).disk  c == Head(queue).ack IN
         \/ /\ d \in redirected /\ job[d] = "none" /\ job' = [job EXCEPT ![d] = "running"]
            /\ pending' = [pending EXCEPT ![d] = c] /\ Drop(pending[d])
         \/ pending' = [pending EXCEPT ![d] = Nobody] /\ Drop(c) /\ UNCHANGED job
    /\ UNCHANGED <<up, left, file, redirected, removing, cmd, at, before, after, calm>>

\* The entry goes into the table before QEMU is asked and stays there whatever
\* QEMU says.  An entry that was there is lost.
CommitSnapshot ==
    /\ Take("CommitSnapshot")
    /\ LET d == Head(queue).disk  c == Head(queue).ack IN
         /\ pending' = [pending EXCEPT ![d] = c]
         /\ Drop(pending[d])
         /\ \/ d \in redirected /\ job[d] = "none" /\ job' = [job EXCEPT ![d] = "running"]
            \/ UNCHANGED job
    /\ UNCHANGED <<up, left, file, redirected, removing, cmd, at, before, after, calm>>

\* Fault: the file goes whatever QEMU says.
JobReadyRemovesAnyway ==
    /\ Take("JobReady")
    /\ LET d == Head(queue).disk  c == pending[d] IN
         /\ c # Nobody
         /\ pending' = [pending EXCEPT ![d] = Nobody]
         /\ \/ job[d] = "ready" /\ job' = [job EXCEPT ![d] = "completing"]
            \/ UNCHANGED job
         /\ removing' = [disk |-> d, ack |-> c]
    /\ UNCHANGED <<up, left, file, redirected, cmd, at, owed, dropped, before, after, calm>>

\* The entry leaves the table, and QEMU is asked to complete the job.  Without
\* an entry the unwrap() takes the driver down.
JobReady ==
    /\ Take("JobReady")
    /\ LET d == Head(queue).disk  c == pending[d] IN
         /\ c # Nobody
         /\ pending' = [pending EXCEPT ![d] = Nobody]
         /\ \/ /\ job[d] = "ready" /\ job' = [job EXCEPT ![d] = "completing"]
               /\ removing' = [disk |-> d, ack |-> c]
               /\ UNCHANGED <<owed, dropped>>
            \/ Drop(c) /\ UNCHANGED <<job, removing>>
    /\ UNCHANGED <<up, left, file, redirected, cmd, at, before, after, calm>>

JobReadyPanics ==
    /\ up /\ removing = NotRemoving /\ queue # <<>>
    /\ Head(queue).op = "JobReady" /\ pending[Head(queue).disk] = Nobody
    /\ Down

\* Fault: nobody is told.
RemoveSnapshotSilently ==
    /\ removing # NotRemoving /\ removing.disk \in file
    /\ file' = file \ {removing.disk}
    /\ removing' = NotRemoving
    /\ UNCHANGED <<up, left, qemu, queue, pending, clients, calm>>

\* The rest of JobReady: the file goes, and the client is told.
RemoveSnapshot ==
    /\ removing # NotRemoving /\ removing.disk \in file
    /\ file' = file \ {removing.disk}
    /\ Received(removing.disk, removing.ack)
    /\ removing' = NotRemoving
    /\ UNCHANGED <<up, left, qemu, queue, pending, cmd, at, before, after, calm>>

RemovePanics ==
    /\ removing # NotRemoving /\ removing.disk \notin file
    /\ Down

-------------------------------------------------------------------------------
(* QEMU's block jobs, and the handler of its events. *)

\* BLOCK_JOB_READY: the event handler queues a command for the loop.
BlockJobReady(d) ==
    /\ job[d] = "running" /\ job' = [job EXCEPT ![d] = "ready"]
    /\ queue' = Append(queue, [op |-> "JobReady", disk |-> d, ack |-> Nobody])
    /\ UNCHANGED <<up, left, file, redirected, pending, removing, clients, calm>>

\* A job may fail at any time, also when it was told to complete and its file is
\* gone and its client told.
JobFails(d) ==
    /\ job[d] \in {"running", "ready", "completing"} /\ job' = [job EXCEPT ![d] = "none"]
    /\ calm' = (calm /\ job[d] = "running")
    /\ UNCHANGED <<up, left, file, redirected, driver, clients>>

\* QEMU writes to the disk itself again.  QMP does not order the end of the job
\* and the answer to block-job-complete.
JobCompletes(d) ==
    /\ job[d] = "completing" /\ job' = [job EXCEPT ![d] = "none"]
    /\ redirected' = redirected \ {d}
    /\ UNCHANGED <<up, left, file, driver, clients, calm>>

-------------------------------------------------------------------------------
(* A client at work while Windows is down, one disk after the other.  qemu-img *)
(* may fail, and cannot lock a disk that QEMU uses; the client then panics.   *)

OfflineDisk(c) == CHOOSE d \in owed[c] : TRUE

OfflineCreate(c) ==
    /\ at[c] = "offline" /\ cmd[c] = "enter" /\ owed[c] # {}
    /\ LET d == OfflineDisk(c) IN
         \/ file' = file \cup {d} /\ owed' = [owed EXCEPT ![c] = @ \ {d}] /\ UNCHANGED at
         \/ d \notin file /\ at' = [at EXCEPT ![c] = "failed"] /\ UNCHANGED <<file, owed>>
    /\ UNCHANGED <<up, left, qemu, driver, cmd, dropped, before, after, calm>>

OfflineCommit(c) ==
    /\ at[c] = "offline" /\ cmd[c] = "leave" /\ owed[c] # {}
    /\ LET d == OfflineDisk(c) IN
         \/ d \notin file /\ owed' = [owed EXCEPT ![c] = @ \ {d}] /\ UNCHANGED at
         \/ d \in file /\ ~up /\ ~left /\ at' = [at EXCEPT ![c] = "removing"] /\ UNCHANGED owed
         \/ d \in file /\ at' = [at EXCEPT ![c] = "failed"] /\ UNCHANGED owed
    /\ UNCHANGED <<up, left, file, qemu, driver, cmd, dropped, before, after, calm>>

OfflineRemove(c) ==
    /\ at[c] = "removing"
    /\ LET d == OfflineDisk(c) IN
         \/ /\ d \in file /\ file' = file \ {d}
            /\ owed' = [owed EXCEPT ![c] = @ \ {d}]
            /\ at' = [at EXCEPT ![c] = "offline"]
         \/ d \notin file /\ at' = [at EXCEPT ![c] = "failed"] /\ UNCHANGED <<file, owed>>
    /\ UNCHANGED <<up, left, qemu, driver, cmd, dropped, before, after, calm>>

OfflineFinish(c) ==
    /\ at[c] = "offline" /\ owed[c] = {}
    /\ at' = [at EXCEPT ![c] = "done"]
    /\ UNCHANGED <<up, left, file, qemu, driver, cmd, owed, dropped, before, after, calm>>

-------------------------------------------------------------------------------
MonitorNext == TakeSnapshot \/ CommitSnapshot \/ JobReady \/ RemoveSnapshot
Panic == JobReadyPanics \/ RemovePanics
JobNext(d) == BlockJobReady(d) \/ JobFails(d) \/ JobCompletes(d)
OfflineNext(c) == OfflineCreate(c) \/ OfflineCommit(c) \/ OfflineRemove(c) \/ OfflineFinish(c)

Next ==
    \/ Start \/ Stop \/ QemuEnds
    \/ \E c \in Clients : Request(c) \/ Acknowledge(c) \/ OfflineNext(c)
    \/ MonitorNext \/ Panic
    \/ \E d \in Disks : JobNext(d)

Spec == Init /\ [][Next]_vars

\* The command loop and the tasks are polled when they can go on, and a block
\* job makes progress but while it is ready, when it may wait for ever.
Fairness ==
    /\ WF_vars(MonitorNext \/ Panic)
    /\ \A c \in Clients : WF_vars(Acknowledge(c))
    /\ \A d \in Disks : WF_vars(job[d] # "ready" /\ JobNext(d))
FairSpec == Spec /\ Fairness

-------------------------------------------------------------------------------
(* Properties. *)

\* monitor/mod.rs:191 and :199: the table has an entry for every JobReady in the
\* queue, whatever requests and refusals came between the commit and its job's
\* event, and the file that JobReady removes is there.  Otherwise the driver
\* panics and takes backup, input and control down.  A job that fails after its
\* event, and a start under an offline client, do bring it about.
NeverPanics == calm =>
    /\ \A i \in DOMAIN queue : queue[i].op = "JobReady" => pending[queue[i].disk] # Nobody
    /\ removing # NotRemoving => removing.disk \in file

\* qemu.rs:302 trusts the files at the next start, and controller.rs:444 and :467
\* trust them now.  A file without a redirection exists only while its removal is
\* about to happen.  A redirection without its file exists only while QEMU
\* completes the job: monitor/mod.rs:192-203 removes the file, and tells the client,
\* as soon as QEMU has accepted block-job-complete, and does not "wait for the qemu
\* jobs to return success" as controller.rs:475 says.
FileFollowsDisk == calm /\ up =>
    /\ file \ redirected \subseteq {removing.disk}
    /\ \A d \in redirected \ file : job[d] = "completing"

\* main.rs:59-60: a request that met no other request has done its work when the
\* client is told, and while nobody asks for anything else it stays done, over
\* failed commands and restarts: every disk is redirected, or no file is left.
DoneIfAlone ==
    \A c \in Clients : at[c] = "done" /\ before[c] \cup after[c] = {} =>
        IF cmd[c] = "enter" THEN file = Disks ELSE file = {}

\* control/mod.rs:85 and main.rs:234: the client is told or its stream ends,
\* unless QEMU refused one of its commands, its job failed, or another request
\* took its entry.
CanBeTold(c) ==
    /\ c \notin dropped
    /\ \A d \in Disks : pending[d] = c =>
         job[d] = "running" \/ \E i \in DOMAIN queue : queue[i].op = "JobReady" /\ queue[i].disk = d
WaitingEnds == \A c \in Clients : at[c] = "waiting" ~> at[c] # "waiting" \/ ~CanBeTold(c)

\* main.rs:59: "Enter backup mode. Redirect disks to snapshot files where
\* configured."  Once the client of an Enter is told, no disk stops being redirected
\* while Windows runs unless somebody has come to leave since.
EnterLasts ==
    [][up /\ up' /\ ~(redirected \subseteq redirected') =>
        \A c \in Clients : at[c] = "done" /\ cmd[c] = "enter" =>
            \E b \in after[c] : cmd[b] = "leave"]_vars

\* controller.rs:475: "wait for the qemu jobs to return success and then return the
\* ack downstream".  While no job failed late and no client works on the files
\* itself: when every job has succeeded and every file is gone, no client that
\* asked for it over the control socket has lost its acknowledgement.
SuccessIsTold ==
    calm /\ up /\ file = {} /\ redirected = {} => \A c \in dropped : cmd[c] = "enter"
===============================================================================
