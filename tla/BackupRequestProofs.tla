------------------------- MODULE BackupRequestProofs -------------------------
(***************************************************************************)
(* What becomes of the requests of backup mode, for any number of disks    *)
(* and clients, with or without the calm of BackupProofs.  Every disk that *)
(* a client waits for is held in one place, which is a command in the      *)
(* queue, the table of pending commits, or the removal in progress, or its *)
(* acknowledgement was dropped.  From that follows what a client may rely  *)
(* on that met no other request, or no request to leave.                   *)
(***************************************************************************)
EXTENDS BackupProofs

For(i, d, c) == queue[i].disk = d /\ queue[i].ack = c
Queued(d, c) == \E i \in DOMAIN queue : For(i, d, c)
Removes(d, c) == removing.disk = d /\ removing.ack = c

\* Somebody has yet to acknowledge disk d to client c.
Held(d, c) == Queued(d, c) \/ pending[d] = c \/ Removes(d, c)

KindOf(op) == IF op = "TakeSnapshot" THEN "enter" ELSE "leave"

\* An acknowledgement is held once, for a client that waits for it and has
\* asked for what is being done.
HeldOnce(d, c) ==
    /\ \A i, j \in DOMAIN queue : For(i, d, c) /\ For(j, d, c) => i = j
    /\ Queued(d, c) => pending[d] # c /\ ~Removes(d, c)
    /\ pending[d] = c => ~Removes(d, c)
HeldFor(d, c) ==
    /\ Held(d, c) => at[c] = "waiting" /\ d \in owed[c]
    /\ \A i \in DOMAIN queue : For(i, d, c) => cmd[c] = KindOf(queue[i].op)
    /\ pending[d] = c \/ Removes(d, c) => cmd[c] = "leave"
HeldInv == \A d \in Disks, c \in Clients : HeldOnce(d, c) /\ HeldFor(d, c)

\* monitor/mod.rs:163, :170, :199 and control/mod.rs:85: an acknowledgement that a
\* client waits for is held until it is sent or dropped, and the client is in
\* dropped exactly if one of them is held no longer.
NoneForgotten ==
    \A c \in Clients :
        c \in dropped <=> at[c] = "waiting" /\ \E d \in owed[c] : ~Held(d, c)

DebtInv == TypeOK /\ HeldInv /\ NoneForgotten

-----------------------------------------------------------------------------
(* The queue *)

\* A request queues one command for each disk.
LEMMA AskCommands ==
    ASSUME TypeOK, NEW c \in Clients, NEW todo \in SUBSET Disks,
           NEW op \in {"TakeSnapshot", "CommitSnapshot"}, Ask(c, op, todo)
    PROVE  /\ \A i \in DOMAIN queue : i \in DOMAIN queue' /\ queue'[i] = queue[i]
           /\ \A i \in DOMAIN queue' \ DOMAIN queue :
                queue'[i].op = op /\ queue'[i].ack = c /\ queue'[i].disk \in todo
           /\ \A i, j \in DOMAIN queue' \ DOMAIN queue :
                queue'[i].disk = queue'[j].disk => i = j
           /\ \A d \in todo : \E i \in DOMAIN queue' : queue'[i].ack = c /\ queue'[i].disk = d
<1>1. PICK s \in SetToSeqs(todo) :
        queue' = queue \o [i \in DOMAIN s |-> [op |-> op, disk |-> s[i], ack |-> c]]
  BY DEF Ask
<1> DEFINE n == Cardinality(todo)
<1>2. IsFiniteSet(todo) /\ n \in Nat
  BY DisksAssumption, FS_Subset, FS_CardinalityType
<1>3. s \in [1 .. n -> todo] /\ \A i, j \in 1 .. n : i # j => s[i] # s[j]
  BY DEF SetToSeqs
<1>4. \A d \in todo : \E i \in 1 .. n : s[i] = d
  <2>1. s \in Injection(1 .. n, todo)
    BY <1>3 DEF Injection, IsInjective
  <2>2. Cardinality(1 .. n) = n
    BY <1>2, FS_Interval
  <2> QED
    BY <1>2, <2>1, <2>2, FS_Injection DEF Surjection
<1> HIDE DEF n
<1> DEFINE e == [i \in DOMAIN s |-> [op |-> op, disk |-> s[i], ack |-> c]]
<1>5. /\ e \in Seq(Command) /\ Len(e) = n
      /\ \A i \in 1 .. n : e[i].op = op /\ e[i].ack = c /\ e[i].disk = s[i]
  BY <1>2, <1>3 DEF Command
<1> HIDE DEF e
<1>6. queue \in Seq(Command) /\ queue' = queue \o e
  BY <1>1 DEF TypeOK, e
<1>7. /\ DOMAIN queue = 1 .. Len(queue) /\ DOMAIN queue' = 1 .. Len(queue) + n
      /\ Len(queue) \in Nat
      /\ \A i \in 1 .. Len(queue) : queue'[i] = queue[i]
      /\ \A i \in 1 .. n : queue'[Len(queue) + i] = e[i]
  <2>1. /\ DOMAIN queue = 1 .. Len(queue) /\ DOMAIN queue' = 1 .. Len(queue) + Len(e)
        /\ Len(queue) \in Nat
        /\ \A i \in 1 .. Len(queue) : queue'[i] = queue[i]
    BY <1>5, <1>6
  <2>2. \A i \in 1 .. Len(e) : queue'[Len(queue) + i] = e[i]
    BY <1>5, <1>6
  <2> QED
    BY <1>5, <2>1, <2>2
<1>8. \A i \in DOMAIN queue' \ DOMAIN queue :
        i - Len(queue) \in 1 .. n /\ queue'[i] = e[i - Len(queue)]
  <2> TAKE i \in DOMAIN queue' \ DOMAIN queue
  <2>1. i - Len(queue) \in 1 .. n /\ Len(queue) + (i - Len(queue)) = i
    BY <1>2, <1>7
  <2> QED
    BY <1>7, <2>1
<1>9. \A i \in DOMAIN queue : i \in DOMAIN queue' /\ queue'[i] = queue[i]
  BY <1>2, <1>7
<1>10. \A i \in DOMAIN queue' \ DOMAIN queue :
         queue'[i].op = op /\ queue'[i].ack = c /\ queue'[i].disk \in todo
  BY <1>3, <1>5, <1>8
<1>11. \A i, j \in DOMAIN queue' \ DOMAIN queue : queue'[i].disk = queue'[j].disk => i = j
  <2> SUFFICES ASSUME NEW i \in DOMAIN queue' \ DOMAIN queue,
                      NEW j \in DOMAIN queue' \ DOMAIN queue, queue'[i].disk = queue'[j].disk
               PROVE  i = j
    OBVIOUS
  <2>1. s[i - Len(queue)] = s[j - Len(queue)]
    BY <1>5, <1>8
  <2>2. i - Len(queue) = j - Len(queue)
    BY <1>3, <1>8, <2>1
  <2> QED
    BY <1>7, <2>2
<1>12. \A d \in todo : \E i \in DOMAIN queue' : queue'[i].ack = c /\ queue'[i].disk = d
  <2> SUFFICES ASSUME NEW d \in todo
               PROVE  \E i \in DOMAIN queue' : queue'[i].ack = c /\ queue'[i].disk = d
    OBVIOUS
  <2>1. PICK k \in 1 .. n : s[k] = d
    BY <1>4
  <2>2. Len(queue) + k \in DOMAIN queue' /\ queue'[Len(queue) + k] = e[k]
    BY <1>2, <1>7
  <2> QED
    BY <1>5, <2>1, <2>2
<1> QED
  BY <1>9, <1>10, <1>11, <1>12

\* The loop takes the command at the head, and nothing else of a client's.
LEMMA TakeHolds ==
    ASSUME TypeOK, HeldInv, NEW op, Take(op), NEW d \in Disks, NEW c \in Clients
    PROVE  /\ Queued(d, c)' <=> Queued(d, c) /\ ~For(1, d, c)
           /\ \A i, j \in DOMAIN queue' : For(i, d, c)' /\ For(j, d, c)' => i = j
           /\ \A i \in DOMAIN queue' : For(i, d, c)' =>
                \E j \in DOMAIN queue : For(j, d, c) /\ queue'[i].op = queue[j].op
<1>1. /\ queue \in Seq(Command) /\ queue # <<>> /\ queue' = Tail(queue) /\ 1 \in DOMAIN queue
      /\ \A i \in DOMAIN queue' : i \in Nat /\ i + 1 \in DOMAIN queue /\ queue'[i] = queue[i + 1] /\ i + 1 # 1
  BY TakeQueue DEF Take, TypeOK
<1>2. \A j \in DOMAIN queue : j # 1 => \E i \in DOMAIN queue' : queue'[i] = queue[j]
  <2> SUFFICES ASSUME NEW j \in DOMAIN queue, j # 1
               PROVE  j - 1 \in DOMAIN queue' /\ queue'[j - 1] = queue[j]
    OBVIOUS
  <2> QED
    BY <1>1
<1>3. \A i, j \in DOMAIN queue : For(i, d, c) /\ For(j, d, c) => i = j
  BY DEF HeldInv, HeldOnce
<1>4. \A i \in DOMAIN queue' : For(i, d, c)' => For(i + 1, d, c)
  BY <1>1 DEF For
<1>5. \A i, j \in DOMAIN queue' : For(i, d, c)' /\ For(j, d, c)' => i = j
  <2> SUFFICES ASSUME NEW i \in DOMAIN queue', NEW j \in DOMAIN queue', For(i, d, c)', For(j, d, c)'
               PROVE  i = j
    OBVIOUS
  <2>1. i + 1 = j + 1
    BY <1>1, <1>3, <1>4
  <2> QED
    BY <1>1, <2>1
<1>6. Queued(d, c)' => Queued(d, c) /\ ~For(1, d, c)
  BY <1>1, <1>3, <1>4 DEF Queued
<1>7. Queued(d, c) /\ ~For(1, d, c) => Queued(d, c)'
  BY <1>2 DEF Queued, For
<1> QED
  BY <1>1, <1>4, <1>5, <1>6, <1>7

-----------------------------------------------------------------------------
(* Who is told, and who is dropped *)

\* One that was held is held no longer: it was sent, or dropped.
LEMMA Resolved ==
    ASSUME TypeOK, HeldInv, NoneForgotten, UNCHANGED at,
           NEW d \in Disks, NEW c \in Clients, Held(d, c), Received(d, c) \/ Drop(c),
           \A e \in Disks, b \in Clients : Held(e, b)' <=> Held(e, b) /\ ~(e = d /\ b = c)
    PROVE  NoneForgotten'
<1>1. at[c] = "waiting" /\ d \in owed[c] /\ c # Nobody
  BY NobodyAssumption DEF HeldInv, HeldFor
<1>2. \A b \in Clients : owed[b] \subseteq Disks /\ owed'[b] \subseteq Disks
  BY DEF TypeOK, Received, Drop
<1>3. CASE Received(d, c)
  <2>1. \A b \in Clients : owed'[b] = IF b = c THEN owed[c] \ {d} ELSE owed[b]
    BY <1>3 DEF Received, TypeOK
  <2>2. \A b \in Clients :
          (\E e \in owed'[b] : ~Held(e, b)') <=> \E e \in owed[b] : ~Held(e, b)
    BY <1>2, <2>1
  <2> QED
    BY <1>3, <2>2 DEF NoneForgotten, Received
<1>4. CASE Drop(c)
  <2>1. dropped' = dropped \cup {c} /\ owed' = owed
    BY <1>1, <1>4 DEF Drop
  <2> QED
    BY <1>1, <1>2, <2>1 DEF NoneForgotten
<1> QED
  BY <1>3, <1>4

\* A step of clients of whom nothing is held.
LEMMA ClientStep ==
    ASSUME TypeOK, HeldInv, NoneForgotten, UNCHANGED <<driver, cmd, dropped>>,
           \A b \in Clients :
             \/ at'[b] = at[b] /\ owed'[b] = owed[b]
             \/ /\ at[b] # "waiting" \/ owed[b] = {}
                /\ at'[b] # "waiting"
    PROVE  HeldInv' /\ NoneForgotten'
<1>1. \A d \in Disks, c \in Clients : Held(d, c)' <=> Held(d, c)
  BY DEF Held, Queued, For, Removes, driver
<1>2. HeldInv'
  BY DEF HeldInv, HeldOnce, HeldFor, Held, Queued, For, Removes, driver
<1>3. \A c \in Clients : owed[c] \subseteq Disks
  BY DEF TypeOK
<1>4. NoneForgotten'
  BY <1>1, <1>3 DEF NoneForgotten
<1> QED
  BY <1>2, <1>4

-----------------------------------------------------------------------------
(* The command loop *)

LEMMA TakeSnapshotDebt ==
    ASSUME DebtInv, TypeOK', TakeSnapshot
    PROVE  DebtInv'
<1> USE DEF DebtInv
<1> DEFINE d == Head(queue).disk
           c == Head(queue).ack
<1>1. Take("TakeSnapshot") /\ UNCHANGED <<pending, removing, cmd, at>>
  BY DEF TakeSnapshot
<1>2. /\ d \in Disks /\ c \in Clients /\ For(1, d, c) /\ Queued(d, c) /\ Held(d, c)
      /\ \A e, b : For(1, e, b) => e = d /\ b = c
  BY <1>1, TakeQueue DEF Take, Command, For, Held, Queued
<1>3. Received(d, c) \/ Drop(c)
  BY DEF TakeSnapshot
<1> HIDE DEF d, c
<1>4. \A e \in Disks, b \in Clients : Held(e, b)' <=> Held(e, b) /\ ~(e = d /\ b = c)
  <2> SUFFICES ASSUME NEW e \in Disks, NEW b \in Clients
               PROVE  Held(e, b)' <=> Held(e, b) /\ ~(e = d /\ b = c)
    OBVIOUS
  <2>1. Queued(e, b)' <=> Queued(e, b) /\ ~(e = d /\ b = c)
    BY <1>1, <1>2, TakeHolds
  <2>2. pending[d] # c /\ ~Removes(d, c)
    BY <1>2 DEF HeldInv, HeldOnce
  <2>3. (pending[e] = b)' <=> pending[e] = b
    BY <1>1
  <2>4. Removes(e, b)' <=> Removes(e, b)
    BY <1>1 DEF Removes
  <2> QED
    BY <2>1, <2>2, <2>3, <2>4 DEF Held
<1>5. NoneForgotten'
  BY <1>1, <1>2, <1>3, <1>4, Resolved
<1>6. HeldInv'
  <2> SUFFICES ASSUME NEW e \in Disks, NEW b \in Clients
               PROVE  HeldOnce(e, b)' /\ HeldFor(e, b)'
    BY DEF HeldInv
  <2>1. HeldOnce(e, b) /\ HeldFor(e, b)
    BY DEF HeldInv
  <2>2. HeldOnce(e, b)'
    BY <1>1, <2>1, TakeHolds DEF HeldOnce, Removes
  <2>3. Held(e, b)' => at'[b] = "waiting" /\ e \in owed'[b]
    BY <1>1, <1>2, <1>3, <1>4, <2>1 DEF HeldFor, Received, Drop, TypeOK
  <2>4. HeldFor(e, b)'
    BY <1>1, <2>1, <2>3, TakeHolds DEF HeldFor, Removes
  <2> QED
    BY <2>2, <2>4
<1> QED
  BY <1>5, <1>6

\* The entry goes into the table, and one that was there is dropped.
LEMMA CommitSnapshotDebt ==
    ASSUME DebtInv, TypeOK', CommitSnapshot
    PROVE  DebtInv'
<1> USE DEF DebtInv
<1> DEFINE d == Head(queue).disk
           c == Head(queue).ack
           o == pending[d]
<1>1. Take("CommitSnapshot") /\ UNCHANGED <<removing, cmd, at, owed>>
  BY DEF CommitSnapshot, Drop
<1>2. /\ d \in Disks /\ c \in Clients /\ For(1, d, c) /\ Queued(d, c)
      /\ \A e, b : For(1, e, b) => e = d /\ b = c
      /\ o \in Clients \cup {Nobody}
  BY <1>1, TakeQueue DEF Take, Command, For, Queued, TypeOK
<1>3. pending' = [pending EXCEPT ![d] = c] /\ Drop(o)
  BY DEF CommitSnapshot
<1>4. cmd[c] = "leave" /\ at[c] = "waiting" /\ d \in owed[c]
  <2>1. queue[1].op = "CommitSnapshot" /\ 1 \in DOMAIN queue
    BY <1>1, TakeQueue DEF Take
  <2> QED
    BY <1>2, <2>1 DEF HeldInv, HeldFor, KindOf, Held
<1>5. o # c
  BY <1>2 DEF HeldInv, HeldOnce
<1>6. o = pending[d]
  OBVIOUS
<1> HIDE DEF d, c, o
<1>7. \A e \in Disks, b \in Clients :
        (pending[e] = b)' <=> IF e = d THEN b = c ELSE pending[e] = b
  BY <1>2, <1>3 DEF TypeOK
<1>8. \A e \in Disks, b \in Clients : Removes(e, b)' <=> Removes(e, b)
  BY <1>1 DEF Removes
<1>9. \A e \in Disks, b \in Clients : Held(e, b)' <=> Held(e, b) /\ ~(e = d /\ b = o)
  <2> SUFFICES ASSUME NEW e \in Disks, NEW b \in Clients
               PROVE  Held(e, b)' <=> Held(e, b) /\ ~(e = d /\ b = o)
    OBVIOUS
  <2>1. Queued(e, b)' <=> Queued(e, b) /\ ~(e = d /\ b = c)
    BY <1>1, <1>2, TakeHolds
  <2>2. b = o => ~Queued(d, b) /\ ~Removes(d, b)
    BY <1>6, <1>2 DEF HeldInv, HeldOnce
  <2> QED
    BY <1>2, <1>5, <1>6, <1>7, <1>8, <2>1, <2>2 DEF Held
<1>10. NoneForgotten'
  <2>1. CASE o = Nobody
    <3>1. \A e \in Disks, b \in Clients : Held(e, b)' <=> Held(e, b)
      BY <1>9, <2>1, NobodyAssumption
    <3>2. UNCHANGED <<at, owed, dropped>> /\ \A b \in Clients : owed[b] \subseteq Disks
      BY <1>1, <1>3, <2>1 DEF Drop, TypeOK
    <3> QED
      BY <3>1, <3>2 DEF NoneForgotten
  <2>2. CASE o \in Clients
    BY <1>1, <1>2, <1>3, <1>6, <1>9, <2>2, Resolved DEF Held
  <2> QED
    BY <1>2, <2>1, <2>2
<1>11. HeldInv'
  <2> SUFFICES ASSUME NEW e \in Disks, NEW b \in Clients
               PROVE  HeldOnce(e, b)' /\ HeldFor(e, b)'
    BY DEF HeldInv
  <2>1. HeldOnce(e, b) /\ HeldFor(e, b)
    BY DEF HeldInv
  <2>2. Queued(e, b)' <=> Queued(e, b) /\ ~(e = d /\ b = c)
    BY <1>1, <1>2, TakeHolds
  <2>3. HeldOnce(e, b)'
    BY <1>1, <1>2, <1>7, <1>8, <2>1, <2>2, TakeHolds DEF HeldOnce
  <2>4. HeldFor(e, b)'
    BY <1>1, <1>4, <1>7, <1>8, <1>9, <2>1, TakeHolds DEF HeldFor
  <2> QED
    BY <2>3, <2>4
<1> QED
  BY <1>10, <1>11

\* The entry moves on to the removal, or is dropped.
LEMMA JobReadyDebt ==
    ASSUME DebtInv, TypeOK', JobReady
    PROVE  DebtInv'
<1> USE DEF DebtInv
<1> DEFINE d == Head(queue).disk
           c == pending[d]
<1>1. Take("JobReady") /\ UNCHANGED <<cmd, at, owed>>
  BY DEF JobReady, Drop
<1>2. d \in Disks /\ c \in Clients /\ c # Nobody /\ removing = NotRemoving
  BY <1>1, TakeQueue DEF JobReady, Take, Command, TypeOK
<1>3. \A e \in Disks, b \in Clients : ~For(1, e, b)
  BY <1>1, TakeQueue, NobodyAssumption DEF Take, Command, For
<1>4. /\ pending' = [pending EXCEPT ![d] = Nobody]
      /\ \/ removing' = [disk |-> d, ack |-> c] /\ UNCHANGED dropped
         \/ Drop(c) /\ UNCHANGED removing
  BY DEF JobReady
<1>5. c = pending[d]
  OBVIOUS
<1> HIDE DEF d, c
<1>6. \A e \in Disks, b \in Clients :
        /\ (pending[e] = b)' <=> pending[e] = b /\ e # d
        /\ ~Removes(e, b)
        /\ Queued(e, b)' <=> Queued(e, b)
  BY <1>1, <1>2, <1>3, <1>4, NobodyAssumption, TakeHolds DEF TypeOK, Removes, NotRemoving
<1>7. at[c] = "waiting" /\ d \in owed[c] /\ ~Queued(d, c) /\ cmd[c] = "leave" /\ Held(d, c)
  BY <1>2, <1>5 DEF HeldInv, HeldFor, HeldOnce, Held
<1>8. CASE removing' = [disk |-> d, ack |-> c] /\ UNCHANGED dropped
  <2>1. \A e \in Disks, b \in Clients : Removes(e, b)' <=> e = d /\ b = c
    BY <1>8 DEF Removes
  <2>2. \A e \in Disks, b \in Clients : Held(e, b)' <=> Held(e, b)
    BY <1>2, <1>5, <1>6, <2>1 DEF Held
  <2>3. \A b \in Clients : owed[b] \subseteq Disks
    BY DEF TypeOK
  <2>4. NoneForgotten'
    BY <1>1, <1>8, <2>2, <2>3 DEF NoneForgotten
  <2>5. ASSUME NEW e \in Disks, NEW b \in Clients PROVE HeldOnce(e, b)' /\ HeldFor(e, b)'
    <3>1. HeldOnce(e, b) /\ HeldFor(e, b)
      BY DEF HeldInv
    <3>2. HeldOnce(e, b)'
      BY <1>1, <1>6, <1>7, <2>1, <3>1, TakeHolds DEF HeldOnce
    <3>3. HeldFor(e, b)'
      BY <1>1, <1>6, <1>7, <2>1, <2>2, <3>1, TakeHolds DEF HeldFor
    <3> QED
      BY <3>2, <3>3
  <2> QED
    BY <2>4, <2>5 DEF HeldInv
<1>9. CASE Drop(c) /\ UNCHANGED removing
  <2>1. \A e \in Disks, b \in Clients : ~Removes(e, b)'
    BY <1>6, <1>9 DEF Removes
  <2>2. \A e \in Disks, b \in Clients : Held(e, b)' <=> Held(e, b) /\ ~(e = d /\ b = c)
    BY <1>2, <1>5, <1>6, <1>7, <2>1 DEF Held
  <2>3. NoneForgotten'
    BY <1>1, <1>2, <1>7, <1>9, <2>2, Resolved
  <2>4. ASSUME NEW e \in Disks, NEW b \in Clients PROVE HeldOnce(e, b)' /\ HeldFor(e, b)'
    <3>1. HeldOnce(e, b) /\ HeldFor(e, b)
      BY DEF HeldInv
    <3>2. HeldOnce(e, b)'
      BY <1>1, <1>6, <2>1, <3>1, TakeHolds DEF HeldOnce
    <3>3. HeldFor(e, b)'
      BY <1>1, <1>6, <2>1, <2>2, <3>1, TakeHolds DEF HeldFor
    <3> QED
      BY <3>2, <3>3
  <2> QED
    BY <2>3, <2>4 DEF HeldInv
<1> QED
  BY <1>4, <1>8, <1>9

LEMMA RemoveSnapshotDebt ==
    ASSUME DebtInv, TypeOK', RemoveSnapshot
    PROVE  DebtInv'
<1> USE DEF DebtInv
<1> DEFINE d == removing.disk
           c == removing.ack
<1>1. /\ d \in Disks /\ c \in Clients /\ removing' = NotRemoving
      /\ Received(d, c) /\ UNCHANGED <<queue, pending, cmd, at>>
  BY DEF RemoveSnapshot, TypeOK, Idle, NotRemoving
<1>2. \A e, b : Removes(e, b) <=> e = d /\ b = c
  BY DEF Removes
<1> HIDE DEF d, c
<1>3. \A e \in Disks, b \in Clients :
        /\ ~Removes(e, b)'
        /\ Queued(e, b)' <=> Queued(e, b)
        /\ (pending[e] = b)' <=> pending[e] = b
  BY <1>1, NobodyAssumption DEF Removes, NotRemoving, Queued, For
<1>4. \A e \in Disks, b \in Clients : Held(e, b)' <=> Held(e, b) /\ ~(e = d /\ b = c)
  BY <1>1, <1>2, <1>3 DEF Held, HeldInv, HeldOnce
<1>5. NoneForgotten'
  BY <1>1, <1>2, <1>4, Resolved DEF Held
<1>6. ASSUME NEW e \in Disks, NEW b \in Clients PROVE HeldOnce(e, b)' /\ HeldFor(e, b)'
  <2>1. HeldOnce(e, b) /\ HeldFor(e, b)
    BY DEF HeldInv
  <2>2. HeldOnce(e, b)'
    BY <1>1, <1>3, <2>1 DEF HeldOnce, For
  <2>3. HeldFor(e, b)'
    BY <1>1, <1>3, <1>4, <2>1 DEF HeldFor, For, Received, TypeOK
  <2> QED
    BY <2>2, <2>3
<1> QED
  BY <1>5, <1>6 DEF HeldInv

-----------------------------------------------------------------------------
(* Requests, block jobs, and the end of the driver *)

\* Nothing was held for the client; what it asks for now is.
LEMMA AskDebt ==
    ASSUME DebtInv, TypeOK', NEW c \in Clients, at[c] = "idle", UNCHANGED <<cmd, dropped>>,
           NEW todo \in SUBSET Disks, NEW op \in {"TakeSnapshot", "CommitSnapshot"},
           Ask(c, op, todo), cmd[c] = KindOf(op)
    PROVE  DebtInv'
<1> USE DEF DebtInv
<1>1. /\ at' = [at EXCEPT ![c] = "waiting"] /\ owed' = [owed EXCEPT ![c] = todo]
      /\ UNCHANGED <<pending, removing>>
  BY DEF Ask
<1>2. /\ \A i \in DOMAIN queue : i \in DOMAIN queue' /\ queue'[i] = queue[i]
      /\ \A i \in DOMAIN queue' \ DOMAIN queue :
           queue'[i].op = op /\ queue'[i].ack = c /\ queue'[i].disk \in todo
      /\ \A i, j \in DOMAIN queue' \ DOMAIN queue :
           queue'[i].disk = queue'[j].disk => i = j
      /\ \A d \in todo : \E i \in DOMAIN queue' : queue'[i].ack = c /\ queue'[i].disk = d
  BY AskCommands
<1>3. \A d \in Disks : ~Held(d, c)
  BY DEF HeldInv, HeldFor
<1>4. \A d \in Disks, b \in Clients :
        ((pending[d] = b)' <=> pending[d] = b) /\ (Removes(d, b)' <=> Removes(d, b))
  BY <1>1 DEF Removes
<1>5. \A d \in Disks, b \in Clients, i \in DOMAIN queue' :
        For(i, d, b)' => IF b = c THEN i \notin DOMAIN queue /\ queue'[i].op = op /\ d \in todo
                                  ELSE i \in DOMAIN queue /\ For(i, d, b) /\ queue'[i] = queue[i]
  BY <1>2, <1>3 DEF For, Held, Queued
<1>6. \A d \in Disks, b \in Clients : b # c => (Queued(d, b)' <=> Queued(d, b))
  BY <1>2, <1>5 DEF For, Queued
<1>7. \A d \in Disks : Queued(d, c)' <=> d \in todo
  BY <1>2, <1>5 DEF For, Queued
<1>8. \A d \in Disks, b \in Clients : Held(d, b)' <=> IF b = c THEN d \in todo ELSE Held(d, b)
  BY <1>3, <1>4, <1>6, <1>7 DEF Held
<1>9. ASSUME NEW d \in Disks, NEW b \in Clients PROVE HeldOnce(d, b)' /\ HeldFor(d, b)'
  <2>1. HeldOnce(d, b) /\ HeldFor(d, b)
    BY DEF HeldInv
  <2>2. \A i, j \in DOMAIN queue' : For(i, d, b)' /\ For(j, d, b)' => i = j
    BY <1>2, <1>5, <2>1 DEF HeldOnce, For
  <2>3. HeldOnce(d, b)'
    BY <1>3, <1>4, <1>6, <2>1, <2>2 DEF HeldOnce, Held
  <2>4. Held(d, b)' => at'[b] = "waiting" /\ d \in owed'[b]
    BY <1>1, <1>8, <2>1 DEF HeldFor, TypeOK
  <2>5. \A i \in DOMAIN queue' : For(i, d, b)' => cmd'[b] = KindOf(queue'[i].op)
    BY <1>5, <2>1 DEF HeldFor
  <2>6. (pending[d] = b \/ Removes(d, b))' => cmd'[b] = "leave"
    BY <1>4, <2>1 DEF HeldFor
  <2> QED
    BY <2>3, <2>4, <2>5, <2>6 DEF HeldFor
<1>10. NoneForgotten'
  <2> SUFFICES ASSUME NEW b \in Clients
               PROVE  b \in dropped' <=> at'[b] = "waiting" /\ \E d \in owed'[b] : ~Held(d, b)'
    BY DEF NoneForgotten
  <2>1. owed[b] \subseteq Disks /\ owed'[b] \subseteq Disks
    BY DEF TypeOK
  <2>2. CASE b = c
    BY <1>1, <1>8, <2>1, <2>2 DEF NoneForgotten, TypeOK
  <2>3. CASE b # c
    BY <1>1, <1>8, <2>1, <2>3 DEF NoneForgotten, TypeOK
  <2> QED
    BY <2>2, <2>3
<1> QED
  BY <1>9, <1>10 DEF HeldInv

LEMMA RequestDebt ==
    ASSUME DebtInv, TypeOK', NEW c \in Clients, Request(c)
    PROVE  DebtInv'
<1>1. at[c] = "idle" /\ UNCHANGED <<cmd, dropped>>
  BY DEF Request
<1>2. CASE EnterBackupMode(c)
  BY <1>1, <1>2, AskDebt DEF EnterBackupMode, KindOf, DebtInv, TypeOK
<1>3. CASE LeaveBackupMode(c)
  BY <1>1, <1>3, AskDebt DEF LeaveBackupMode, KindOf, DebtInv, TypeOK
<1>4. CASE GoOffline(c)
  BY <1>1, <1>4, ClientStep DEF GoOffline, DebtInv, TypeOK
<1> QED
  BY <1>2, <1>3, <1>4 DEF Request

LEMMA JobDebt ==
    ASSUME DebtInv, TypeOK', NEW d \in Disks, JobNext(d)
    PROVE  DebtInv'
<1> USE DEF DebtInv
<1>1. CASE BlockJobReady(d)
  <2> DEFINE e == [op |-> "JobReady", disk |-> d, ack |-> Nobody]
  <2>1. e \in Command /\ queue' = Append(queue, e) /\ UNCHANGED <<pending, removing, cmd, at, owed, dropped>>
    BY <1>1 DEF BlockJobReady, Command, clients
  <2>2. /\ \A i \in DOMAIN queue : i \in DOMAIN queue' /\ queue'[i] = queue[i]
        /\ \A i \in DOMAIN queue' \ DOMAIN queue : queue'[i].ack = Nobody
    BY <2>1 DEF TypeOK
  <2> HIDE DEF e
  <2>3. \A f \in Disks, b \in Clients, i \in DOMAIN queue' :
          For(i, f, b)' => i \in DOMAIN queue /\ For(i, f, b) /\ queue'[i] = queue[i]
    BY <2>2, NobodyAssumption DEF For
  <2>4. \A f \in Disks, b \in Clients : Queued(f, b)' <=> Queued(f, b)
    BY <2>2, <2>3 DEF Queued, For
  <2>5. \A f \in Disks, b \in Clients :
          /\ (Removes(f, b)' <=> Removes(f, b)) /\ ((pending[f] = b)' <=> pending[f] = b)
          /\ Held(f, b)' <=> Held(f, b)
    BY <2>1, <2>4 DEF Held, Removes
  <2>6. HeldInv'
    BY <2>1, <2>3, <2>4, <2>5 DEF HeldInv, HeldOnce, HeldFor
  <2>7. NoneForgotten'
    BY <2>1, <2>5 DEF NoneForgotten, TypeOK
  <2> QED
    BY <2>6, <2>7
<1>2. CASE JobFails(d) \/ JobCompletes(d)
  BY <1>2, ClientStep DEF JobFails, JobCompletes, clients
<1> QED
  BY <1>1, <1>2 DEF JobNext

LEMMA DownDebt ==
    ASSUME DebtInv, TypeOK', Down
    PROVE  DebtInv'
<1>1. \A d \in Disks, c \in Clients : ~Held(d, c)'
  BY NobodyAssumption DEF Down, Held, Queued, For, Removes, NotRemoving
<1>2. \A c \in Clients : at'[c] # "waiting"
  BY DEF Down, DebtInv, TypeOK
<1>3. HeldInv'
  BY <1>1 DEF HeldInv, HeldOnce, HeldFor, Held, Queued
<1>4. NoneForgotten'
  BY <1>2 DEF NoneForgotten, Down
<1> QED
  BY <1>3, <1>4 DEF DebtInv

LEMMA OfflineDebt ==
    ASSUME DebtInv, TypeOK', NEW c \in Clients, OfflineNext(c) \/ Acknowledge(c)
    PROVE  DebtInv'
<1>1. UNCHANGED <<driver, cmd, dropped>>
  BY DEF OfflineNext, OfflineCreate, OfflineCommit, OfflineRemove, OfflineFinish, Acknowledge
<1>2. (at[c] # "waiting" \/ owed[c] = {}) /\ at'[c] # "waiting"
  BY DEF OfflineNext, OfflineCreate, OfflineCommit, OfflineRemove, OfflineFinish, Acknowledge,
         DebtInv, TypeOK
<1>3. \A b \in Clients : b # c => at'[b] = at[b] /\ owed'[b] = owed[b]
  <2>1. /\ UNCHANGED at \/ \E p : at' = [at EXCEPT ![c] = p]
        /\ UNCHANGED owed \/ \E o : owed' = [owed EXCEPT ![c] = o]
    BY DEF OfflineNext, OfflineCreate, OfflineCommit, OfflineRemove, OfflineFinish, Acknowledge
  <2> QED
    BY <2>1 DEF DebtInv, TypeOK
<1> QED
  BY <1>1, <1>2, <1>3, ClientStep DEF DebtInv

LEMMA InitDebt == Init => DebtInv
<1> SUFFICES ASSUME Init PROVE DebtInv
  OBVIOUS
<1>1. \A d \in Disks, c \in Clients : ~Held(d, c)
  BY NobodyAssumption DEF Init, Held, Queued, For, Removes, NotRemoving
<1>2. HeldInv
  BY <1>1 DEF HeldInv, HeldOnce, HeldFor, Held, Queued
<1> QED
  BY <1>2, InitTypes DEF DebtInv, NoneForgotten, Init

LEMMA DebtPreserved == DebtInv /\ [Next]_vars => DebtInv'
<1> SUFFICES ASSUME DebtInv, [Next]_vars PROVE DebtInv'
  OBVIOUS
<1>0. TypeOK'
  BY NextTypes DEF DebtInv
<1>1. CASE Start \/ QemuEnds \/ UNCHANGED vars
  BY <1>0, <1>1, ClientStep DEF Start, QemuEnds, vars, driver, clients, DebtInv
<1>2. CASE Stop \/ Panic
  BY <1>0, <1>2, DownDebt DEF Stop, Panic, JobReadyPanics, RemovePanics
<1>3. ASSUME NEW c \in Clients, Request(c) \/ Acknowledge(c) \/ OfflineNext(c)
      PROVE  DebtInv'
  BY <1>0, <1>3, RequestDebt, OfflineDebt
<1>4. CASE MonitorNext
  BY <1>0, <1>4, TakeSnapshotDebt, CommitSnapshotDebt, JobReadyDebt, RemoveSnapshotDebt DEF MonitorNext
<1>5. ASSUME NEW d \in Disks, JobNext(d) PROVE DebtInv'
  BY <1>0, <1>5, JobDebt
<1> QED
  BY <1>1, <1>2, <1>3, <1>4, <1>5 DEF Next

\* The inductive invariant of the acknowledgements.
THEOREM DebtInvariant == Spec => []DebtInv
BY InitDebt, DebtPreserved, PTL DEF Spec

\* monitor/mod.rs:163, :170, :199: no acknowledgement gets lost between the queue,
\* the table of commits and the removal, over requests for the same disks,
\* refusals and failed jobs: a client that still waits for a disk is told by
\* somebody, or one of its acknowledgements was dropped.
THEOREM NoneIsForgotten == Spec => []NoneForgotten
<1>1. DebtInv => NoneForgotten
  BY DEF DebtInv
<1> QED
  BY <1>1, DebtInvariant, PTL

-----------------------------------------------------------------------------
(* What a client may rely on *)

Came == {"waiting", "offline", "removing", "done"}
Others(c) == before[c] \cup after[c]

\* The files still lack what the client's disks stand for at most where it waits.
Doing(c) == IF cmd[c] = "enter" THEN Disks \subseteq file \cup owed[c] ELSE file \subseteq owed[c]

PlaceInv ==
    \A c \in Clients : /\ at[c] = "done" => owed[c] = {}
                       /\ at[c] = "removing" => cmd[c] = "leave"

\* A request that met no other has the files to itself.
LoneInv ==
    \A c \in Clients : at[c] \in Came /\ Others(c) = {} => AtWork \subseteq {c} /\ Doing(c)

\* A request that met no other that leaves: nobody removes files but itself, what
\* it waits to have removed is there, and a disk that is being committed as it
\* comes is one that it waits for.
Undisturbed(c) == at[c] \in Came /\ \A b \in Others(c) : cmd[b] # "leave"
UndisturbedInv ==
    \A c \in Clients : Undisturbed(c) =>
        /\ \A b \in AtWork : cmd[b] = "leave" => b = c
        /\ cmd[c] = "leave" /\ at[c] = "waiting" => owed[c] \subseteq file
        /\ calm /\ cmd[c] = "enter" =>
             \A d \in Disks : job[d] = "completing" => at[c] = "waiting" /\ d \in owed[c]

RequestInv == BackupInv /\ DebtInv /\ PlaceInv /\ LoneInv /\ UndisturbedInv

\* main.rs:59 and controller.rs:444, with the leaving that had already begun, which
\* MCEnterDuringLeave shows to be needed: once the client of an Enter is told, no
\* disk stops being redirected while Windows runs, unless somebody was leaving
\* when it came or came to leave since.
EnterLastsUndisturbed ==
    [][calm /\ up /\ up' /\ ~(redirected \subseteq redirected') =>
        \A c \in Clients : at[c] = "done" /\ cmd[c] = "enter" =>
            \E b \in Others(c) : cmd[b] = "leave"]_vars

\* controller.rs:475, with the other request that MCLeaveTwice shows to be needed:
\* when every file is gone, a client that asked for it and met nobody else who did
\* has lost no acknowledgement.
SuccessIsToldUndisturbed ==
    up /\ file = {} => \A c \in dropped :
        cmd[c] = "enter" \/ \E b \in Others(c) : cmd[b] = "leave"

\* The end of a leaving, as the code announces it: a disk that is still redirected
\* is one that QEMU is completing.
LeaveToldWhileCompleting ==
    calm /\ up => \A c \in Clients :
        at[c] = "done" /\ cmd[c] = "leave" /\ Others(c) = {} =>
            \A d \in redirected : job[d] = "completing"

\* Nobody comes to work but by a request.
LEMMA OthersStay ==
    ASSUME TypeOK, [Next]_vars, \A c \in Clients : ~Request(c)
    PROVE  /\ UNCHANGED <<cmd, before, after>> /\ AtWork' \subseteq AtWork
           /\ \A c \in Clients : /\ at'[c] \in Came => at[c] \in Came
                                 /\ at'[c] = "waiting" => at[c] = "waiting"
<1>1. CASE Start \/ QemuEnds \/ MonitorNext \/ UNCHANGED vars \/ \E d \in Disks : JobNext(d)
  <2>1. UNCHANGED <<cmd, at, before, after>>
    BY <1>1 DEF Start, QemuEnds, MonitorNext, TakeSnapshot, CommitSnapshot, JobReady, RemoveSnapshot,
               JobNext, BlockJobReady, JobFails, JobCompletes, vars, clients
  <2> QED
    BY <2>1 DEF AtWork
<1>2. CASE Stop \/ Panic
  <2>1. UNCHANGED <<cmd, before, after>>
        /\ at' = [c \in Clients |-> IF at[c] = "waiting" THEN "failed" ELSE at[c]]
    BY <1>2 DEF Stop, Panic, JobReadyPanics, RemovePanics, Down
  <2> QED
    BY <2>1 DEF AtWork, Came
<1>3. ASSUME NEW c \in Clients, Acknowledge(c) \/ OfflineNext(c)
      PROVE  /\ UNCHANGED <<cmd, before, after>> /\ AtWork' \subseteq AtWork
             /\ \A b \in Clients : /\ at'[b] \in Came => at[b] \in Came
                                   /\ at'[b] = "waiting" => at[b] = "waiting"
  <2>1. /\ UNCHANGED <<cmd, before, after>> /\ at[c] \in {"waiting", "offline", "removing"}
        /\ \/ UNCHANGED at
           \/ \E p \in {"done", "failed", "removing", "offline"} : at' = [at EXCEPT ![c] = p]
    BY <1>3 DEF Acknowledge, OfflineNext, OfflineCreate, OfflineCommit, OfflineRemove, OfflineFinish
  <2> QED
    BY <2>1 DEF AtWork, Came, TypeOK
<1> QED
  BY <1>1, <1>2, <1>3 DEF Next

\* Client c gets further by disk d.
Deed(c, d) ==
    /\ owed' = [owed EXCEPT ![c] = @ \ {d}]
    /\ file' = IF cmd[c] = "enter" THEN file \cup {d} ELSE file \ {d}

\* A file comes or goes as the work of a client that asked for it and waits for its
\* disk, and nothing else brings a client further.
LEMMA Deeds ==
    ASSUME DebtInv, PlaceInv, [Next]_vars, \A c \in Clients : ~Request(c)
    PROVE  \/ UNCHANGED file /\ \A c \in Clients : owed'[c] = owed[c] \/ at'[c] = "failed"
           \/ \E c \in AtWork : \E d : Deed(c, d)
<1>1. CASE Start \/ QemuEnds \/ CommitSnapshot \/ JobReady \/ UNCHANGED vars \/ \E d \in Disks : JobNext(d)
  BY <1>1 DEF Start, QemuEnds, CommitSnapshot, JobReady, JobNext, BlockJobReady, JobFails, JobCompletes,
              Drop, vars, clients
<1>2. CASE Stop \/ Panic
  BY <1>2 DEF Stop, Panic, JobReadyPanics, RemovePanics, Down
<1>3. CASE TakeSnapshot
  <2> DEFINE d == Head(queue).disk
             c == Head(queue).ack
  <2>1. d \in Disks /\ c \in Clients /\ For(1, d, c) /\ queue[1].op = "TakeSnapshot" /\ 1 \in DOMAIN queue
    BY <1>3, TakeQueue DEF TakeSnapshot, Take, Command, For, DebtInv
  <2>2. c \in AtWork /\ cmd[c] = "enter"
    BY <2>1 DEF DebtInv, HeldInv, HeldFor, Held, Queued, KindOf, AtWork
  <2>3. \/ file' = file \cup {d} /\ Received(d, c)
        \/ UNCHANGED <<file, owed>>
    BY <1>3 DEF TakeSnapshot, Drop
  <2> HIDE DEF d, c
  <2> QED
    BY <2>1, <2>2, <2>3 DEF Received, Deed
<1>4. CASE RemoveSnapshot
  <2> DEFINE d == removing.disk
             c == removing.ack
  <2>1. d \in Disks /\ c \in Clients /\ Removes(d, c)
    BY <1>4 DEF RemoveSnapshot, DebtInv, TypeOK, Idle, NotRemoving, Removes
  <2>2. c \in AtWork /\ cmd[c] = "leave"
    BY <2>1 DEF DebtInv, HeldInv, HeldFor, Held, AtWork
  <2>3. file' = file \ {d} /\ Received(d, c)
    BY <1>4 DEF RemoveSnapshot
  <2> HIDE DEF d, c
  <2> QED
    BY <2>1, <2>2, <2>3 DEF Received, Deed
<1>5. ASSUME NEW c \in Clients, Acknowledge(c) \/ OfflineNext(c)
      PROVE  UNCHANGED <<file, owed>> \/ \E b \in AtWork : \E d : Deed(b, d)
  <2> DEFINE e == OfflineDisk(c)
  <2>1. CASE Acknowledge(c) \/ OfflineFinish(c)
    BY <2>1 DEF Acknowledge, OfflineFinish
  <2>2. CASE OfflineCreate(c)
    <3>1. c \in AtWork /\ cmd[c] = "enter"
          /\ \/ file' = file \cup {e} /\ owed' = [owed EXCEPT ![c] = @ \ {e}]
             \/ UNCHANGED <<file, owed>>
      BY <2>2 DEF OfflineCreate, AtWork
    <3> QED
      BY <3>1 DEF Deed
  <2>3. CASE OfflineCommit(c)
    <3>1. c \in AtWork /\ cmd[c] = "leave" /\ UNCHANGED file
          /\ \/ e \notin file /\ owed' = [owed EXCEPT ![c] = @ \ {e}]
             \/ UNCHANGED owed
      BY <2>3 DEF OfflineCommit, AtWork
    <3>2. e \notin file => file = file \ {e}
      OBVIOUS
    <3> QED
      BY <3>1, <3>2 DEF Deed
  <2>4. CASE OfflineRemove(c)
    <3>1. c \in AtWork /\ cmd[c] = "leave"
          /\ \/ file' = file \ {e} /\ owed' = [owed EXCEPT ![c] = @ \ {e}]
             \/ UNCHANGED <<file, owed>>
      BY <2>4 DEF OfflineRemove, AtWork, PlaceInv
    <3> QED
      BY <3>1 DEF Deed
  <2> QED
    BY <1>5, <2>1, <2>2, <2>3, <2>4 DEF OfflineNext
<1> QED
  BY <1>1, <1>2, <1>3, <1>4, <1>5 DEF Next, MonitorNext

LEMMA PlacePreserved ==
    ASSUME DebtInv, PlaceInv, TypeOK', [Next]_vars
    PROVE  PlaceInv'
<1>1. CASE \E c \in Clients : Request(c)
  <2>1. PICK c \in Clients : Request(c)
    BY <1>1
  <2>2. UNCHANGED cmd /\ \E p \in {"waiting", "offline"} : at' = [at EXCEPT ![c] = p]
    BY <2>1 DEF Request, EnterBackupMode, LeaveBackupMode, GoOffline, Ask
  <2>3. \E o : owed' = [owed EXCEPT ![c] = o]
    BY <2>1 DEF Request, EnterBackupMode, LeaveBackupMode, GoOffline, Ask
  <2> QED
    BY <2>2, <2>3 DEF PlaceInv, DebtInv, TypeOK
<1>2. CASE \A c \in Clients : ~Request(c)
  <2>1. \A c \in Clients : at'[c] = "done" => owed'[c] = {}
    <3> SUFFICES ASSUME NEW c \in Clients, at'[c] = "done" PROVE owed'[c] = {}
      OBVIOUS
    <3>1. owed[c] = {}
      <4>1. \/ UNCHANGED at
            \/ at' = [b \in Clients |-> IF at[b] = "waiting" THEN "failed" ELSE at[b]]
            \/ \E b \in Clients : at' = [at EXCEPT ![b] = "done"] /\ owed[b] = {}
            \/ \E b \in Clients : \E p \in {"failed", "removing", "offline"} : at' = [at EXCEPT ![b] = p]
        BY <1>2 DEF Next, Start, Stop, QemuEnds, Panic, JobReadyPanics, RemovePanics, Down,
             MonitorNext, TakeSnapshot, CommitSnapshot, JobReady, RemoveSnapshot,
             JobNext, BlockJobReady, JobFails, JobCompletes, vars, clients,
             Acknowledge, OfflineNext, OfflineCreate, OfflineCommit, OfflineRemove, OfflineFinish
      <4> QED
        BY <4>1 DEF PlaceInv, DebtInv, TypeOK
    <3> QED
      BY <1>2, <3>1, Deeds DEF Deed, DebtInv, TypeOK
  <2>2. \A c \in Clients : at'[c] = "removing" => cmd[c] = "leave"
    <3>1. \/ UNCHANGED at
          \/ at' = [b \in Clients |-> IF at[b] = "waiting" THEN "failed" ELSE at[b]]
          \/ \E b \in Clients : at' = [at EXCEPT ![b] = "removing"] /\ cmd[b] = "leave"
          \/ \E b \in Clients : \E p \in {"failed", "done", "offline"} : at' = [at EXCEPT ![b] = p]
      BY <1>2 DEF Next, Start, Stop, QemuEnds, Panic, JobReadyPanics, RemovePanics, Down,
           MonitorNext, TakeSnapshot, CommitSnapshot, JobReady, RemoveSnapshot,
           JobNext, BlockJobReady, JobFails, JobCompletes, vars, clients,
           Acknowledge, OfflineNext, OfflineCreate, OfflineCommit, OfflineRemove, OfflineFinish
    <3> QED
      BY <3>1 DEF PlaceInv, DebtInv, TypeOK
  <2>3. UNCHANGED cmd
    BY <1>2, OthersStay DEF DebtInv
  <2> QED
    BY <2>1, <2>2, <2>3 DEF PlaceInv
<1> QED
  BY <1>1, <1>2

\* A request meets whoever is at work, and everybody that came before meets it.
LEMMA RequestMeets ==
    ASSUME TypeOK, NEW c \in Clients, Request(c)
    PROVE  /\ UNCHANGED <<up, file, job, cmd, dropped, calm>>
           /\ AtWork' = AtWork \cup {c} /\ at[c] = "idle" /\ AtWork \subseteq Others(c)'
           /\ \E p \in {"waiting", "offline"} : at' = [at EXCEPT ![c] = p]
           /\ owed' = [owed EXCEPT ![c] = IF up THEN IF cmd[c] = "enter" THEN Disks \ file ELSE file ELSE Disks]
           /\ at'[c] = "waiting" => up
           /\ \A b \in Clients : b # c /\ at'[b] \in Came =>
                Others(b)' = Others(b) \cup {c} /\ at[b] \in Came
<1>1. UNCHANGED <<up, file, job, cmd, dropped, calm>> /\ at[c] = "idle"
  BY DEF Request, qemu
<1>2. /\ \E p \in {"waiting", "offline"} : at' = [at EXCEPT ![c] = p]
      /\ at'[c] = "waiting" => up
  BY DEF Request, EnterBackupMode, LeaveBackupMode, GoOffline, Ask, TypeOK
<1>3. owed' = [owed EXCEPT ![c] = IF up THEN IF cmd[c] = "enter" THEN Disks \ file ELSE file ELSE Disks]
  BY DEF Request, EnterBackupMode, LeaveBackupMode, GoOffline, Ask
<1>4. AtWork' = AtWork \cup {c}
  BY <1>2 DEF AtWork, TypeOK
<1>5. /\ before' = [before EXCEPT ![c] = AtWork]
      /\ after' = [b \in Clients |-> after[b] \cup (IF at[b] = "idle" THEN {} ELSE {c})]
  BY DEF Request
<1>6. AtWork \subseteq Others(c)'
  BY <1>5 DEF Others, TypeOK
<1>7. ASSUME NEW b \in Clients, b # c, at'[b] \in Came
      PROVE  Others(b)' = Others(b) \cup {c} /\ at[b] \in Came
  <2>1. at[b] \in Came /\ at[b] # "idle"
    BY <1>2, <1>7 DEF Came, TypeOK
  <2> QED
    BY <1>5, <1>7, <2>1 DEF Others, TypeOK
<1> QED
  BY <1>1, <1>2, <1>3, <1>4, <1>6, <1>7

LEMMA LonePreserved ==
    ASSUME DebtInv, PlaceInv, LoneInv, TypeOK', [Next]_vars
    PROVE  LoneInv'
<1> SUFFICES ASSUME NEW c \in Clients, at'[c] \in Came, Others(c)' = {}
             PROVE  AtWork' \subseteq {c} /\ Doing(c)'
  BY DEF LoneInv
<1>1. CASE \E b \in Clients : Request(b)
  <2>1. PICK b \in Clients : Request(b)
    BY <1>1
  <2>2. b = c
    BY <2>1, RequestMeets DEF DebtInv
  <2>3. AtWork' \subseteq {c} /\ UNCHANGED <<file, cmd>>
    BY <2>1, <2>2, RequestMeets DEF DebtInv
  <2>4. owed'[c] = IF up THEN IF cmd[c] = "enter" THEN Disks \ file ELSE file ELSE Disks
    BY <2>1, <2>2, RequestMeets DEF DebtInv, TypeOK
  <2> QED
    BY <2>3, <2>4 DEF Doing, TypeOK
<1>2. CASE \A b \in Clients : ~Request(b)
  <2>1. /\ UNCHANGED <<cmd, before, after>> /\ AtWork' \subseteq AtWork /\ at[c] \in Came
    BY <1>2, OthersStay DEF DebtInv
  <2>2. AtWork \subseteq {c} /\ Doing(c)
    BY <2>1 DEF LoneInv, Others
  <2>3. CASE UNCHANGED file /\ \A b \in Clients : owed'[b] = owed[b] \/ at'[b] = "failed"
    BY <2>1, <2>2, <2>3 DEF Doing, Came
  <2>4. CASE \E b \in AtWork : \E d : Deed(b, d)
    <3>1. PICK d : Deed(c, d)
      BY <2>2, <2>4
    <3> QED
      BY <2>1, <2>2, <3>1 DEF Deed, Doing, DebtInv, TypeOK
  <2> QED
    BY <1>2, <2>1, <2>2, <2>3, <2>4, Deeds
<1> QED
  BY <1>1, <1>2

\* While nobody leaves, no commit is told to complete, and no disk whose commit
\* completes gets a snapshot: a client goes on waiting for it.
LEMMA CompletingWaitedFor ==
    ASSUME DebtInv, PlaceInv, TypeOK', [Next]_vars, \A b \in Clients : ~Request(b),
           NEW c \in Clients, cmd[c] = "enter", \A b \in AtWork : cmd[b] # "leave",
           NEW d \in Disks, job'[d] = "completing",
           job[d] = "completing" => at[c] = "waiting" /\ d \in owed[c]
    PROVE  at'[c] = "waiting" /\ d \in owed'[c]
<1>1. CASE Start \/ QemuEnds \/ UNCHANGED vars \/ CommitSnapshot \/ \E e \in Disks : JobNext(e)
  <2>1. UNCHANGED <<at, owed>>
    BY <1>1 DEF Start, QemuEnds, vars, clients, CommitSnapshot, Drop, JobNext, BlockJobReady, JobFails, JobCompletes
  <2>2. job[d] = "completing"
    BY <1>1 DEF Start, QemuEnds, vars, qemu, CommitSnapshot, JobNext, BlockJobReady, JobFails, JobCompletes,
                DebtInv, TypeOK
  <2> QED
    BY <2>1, <2>2
<1>2. CASE Stop \/ Panic
  BY <1>2 DEF Stop, Panic, JobReadyPanics, RemovePanics, Down
<1>3. CASE TakeSnapshot
  <2> DEFINE e == Head(queue).disk
             b == Head(queue).ack
  <2>1. UNCHANGED <<job, at>> /\ ((job[e] = "none" /\ Received(e, b)) \/ UNCHANGED owed)
    BY <1>3 DEF TakeSnapshot, Drop
  <2> HIDE DEF e, b
  <2>2. at[c] = "waiting" /\ d \in owed[c] /\ job[d] = "completing"
    BY <2>1
  <2> QED
    BY <2>1, <2>2 DEF Received, DebtInv, TypeOK
<1>4. CASE JobReady
  <2> DEFINE e == Head(queue).disk
             b == pending[e]
  <2>1. e \in Disks /\ b \in Clients
    BY <1>4, TakeQueue DEF JobReady, Take, Command, DebtInv, TypeOK
  <2>2. b \in AtWork /\ cmd[b] = "leave"
    BY <2>1 DEF DebtInv, HeldInv, HeldFor, Held, AtWork
  <2> QED
    BY <2>2
<1>5. CASE RemoveSnapshot
  <2>1. removing.disk \in Disks /\ removing.ack \in Clients
    BY <1>5 DEF RemoveSnapshot, DebtInv, TypeOK, Idle, NotRemoving
  <2>2. removing.ack \in AtWork /\ cmd[removing.ack] = "leave"
    BY <2>1 DEF DebtInv, HeldInv, HeldFor, Held, Removes, AtWork
  <2> QED
    BY <2>2
<1>6. ASSUME NEW b \in Clients, Acknowledge(b) \/ OfflineNext(b)
      PROVE  at'[c] = "waiting" /\ d \in owed'[c]
  <2>1. /\ UNCHANGED job
        /\ UNCHANGED at \/ \E p : at' = [at EXCEPT ![b] = p]
        /\ UNCHANGED owed \/ \E o : owed' = [owed EXCEPT ![b] = o]
        /\ at[b] # "waiting" \/ owed[b] = {}
    BY <1>6 DEF Acknowledge, OfflineNext, OfflineCreate, OfflineCommit, OfflineRemove, OfflineFinish, qemu
  <2> QED
    BY <2>1 DEF DebtInv, TypeOK
<1> QED
  BY <1>1, <1>2, <1>3, <1>4, <1>5, <1>6 DEF Next, MonitorNext

LEMMA UndisturbedPreserved ==
    ASSUME RequestInv, TypeOK', [Next]_vars
    PROVE  UndisturbedInv'
<1> USE DEF RequestInv
<1> SUFFICES ASSUME NEW c \in Clients, Undisturbed(c)'
             PROVE  /\ \A b \in AtWork' : cmd'[b] = "leave" => b = c
                    /\ cmd'[c] = "leave" /\ at'[c] = "waiting" => owed'[c] \subseteq file'
                    /\ calm' /\ cmd'[c] = "enter" =>
                         \A d \in Disks : job'[d] = "completing" => at'[c] = "waiting" /\ d \in owed'[c]
  BY DEF UndisturbedInv
<1>1. ASSUME NEW b \in Clients, Request(b)
      PROVE  /\ \A x \in AtWork' : cmd'[x] = "leave" => x = c
             /\ cmd'[c] = "leave" /\ at'[c] = "waiting" => owed'[c] \subseteq file'
             /\ calm' /\ cmd'[c] = "enter" =>
                  \A d \in Disks : job'[d] = "completing" => at'[c] = "waiting" /\ d \in owed'[c]
  <2>1. /\ UNCHANGED <<up, file, job, cmd, calm>> /\ AtWork' = AtWork \cup {b}
        /\ \E p \in {"waiting", "offline"} : at' = [at EXCEPT ![b] = p]
        /\ owed' = [owed EXCEPT ![b] = IF up THEN IF cmd[b] = "enter" THEN Disks \ file ELSE file ELSE Disks]
    BY <1>1, RequestMeets DEF DebtInv
  <2>2. CASE b = c
    <3>1. \A x \in AtWork : cmd[x] # "leave"
      BY <1>1, <2>1, <2>2, RequestMeets DEF DebtInv, Undisturbed
    <3>2. at'[c] = "waiting" => owed'[c] = IF cmd[c] = "enter" THEN Disks \ file ELSE file
      BY <1>1, <2>1, <2>2, RequestMeets DEF DebtInv, TypeOK
    <3>3. ASSUME calm, NEW d \in Disks, job[d] = "completing"
          PROVE  up /\ d \notin file
      <4>1. CalmInv
        BY <3>3 DEF BackupInv
      <4>2. ~(removing.disk = d)
        <5>1. removing.disk = d => removing.ack \in Clients
          BY NobodyAssumption DEF DebtInv, TypeOK, Idle
        <5>2. removing.disk = d => removing.ack \in AtWork /\ cmd[removing.ack] = "leave"
          BY <5>1 DEF DebtInv, HeldInv, HeldFor, Held, Removes, AtWork
        <5> QED
          BY <3>1, <5>2
      <4> QED
        BY <3>3, <4>1, <4>2, RunsWhenUp DEF CalmInv, RemovalInv
    <3>4. up => at'[c] = "waiting"
      BY <1>1, <2>1, <2>2 DEF Request, EnterBackupMode, LeaveBackupMode, GoOffline, Ask, DebtInv, TypeOK
    <3> QED
      BY <2>1, <2>2, <3>1, <3>2, <3>3, <3>4
  <2>3. CASE b # c
    <3>1. Others(c)' = Others(c) \cup {b} /\ at[c] \in Came
      BY <1>1, <2>3, RequestMeets DEF DebtInv, Undisturbed
    <3>2. Undisturbed(c) /\ cmd[b] # "leave"
      BY <2>1, <3>1 DEF Undisturbed
    <3>3. at'[c] = at[c] /\ owed'[c] = owed[c]
      BY <2>1, <2>3 DEF DebtInv, TypeOK
    <3> QED
      BY <2>1, <3>2, <3>3 DEF UndisturbedInv
  <2> QED
    BY <2>2, <2>3
<1>2. CASE \A b \in Clients : ~Request(b)
  <2>1. /\ UNCHANGED <<cmd, before, after>> /\ AtWork' \subseteq AtWork /\ at[c] \in Came
        /\ at'[c] = "waiting" => at[c] = "waiting"
    BY <1>2, OthersStay DEF DebtInv, Undisturbed
  <2>2. Undisturbed(c)
    BY <2>1 DEF Undisturbed, Others
  <2>3. \A b \in AtWork : cmd[b] = "leave" => b = c
    BY <2>2 DEF UndisturbedInv
  <2>4. ASSUME cmd[c] = "leave", at'[c] = "waiting" PROVE owed'[c] \subseteq file'
    <3>1. owed[c] \subseteq file
      BY <2>1, <2>2, <2>4 DEF UndisturbedInv
    <3>2. CASE UNCHANGED file /\ \A b \in Clients : owed'[b] = owed[b] \/ at'[b] = "failed"
      BY <2>4, <3>1, <3>2
    <3>3. ASSUME NEW b \in AtWork, NEW d, Deed(b, d) PROVE owed'[c] \subseteq file'
      BY <2>3, <2>4, <3>1, <3>3 DEF Deed, DebtInv, TypeOK, Kinds, AtWork
    <3> QED
      BY <1>2, <3>2, <3>3, Deeds
  <2>5. ASSUME calm', cmd[c] = "enter", NEW d \in Disks, job'[d] = "completing"
        PROVE  at'[c] = "waiting" /\ d \in owed'[c]
    <3>1. job[d] = "completing" => at[c] = "waiting" /\ d \in owed[c]
      BY <2>2, <2>5, CalmEnds DEF UndisturbedInv
    <3>2. \A b \in AtWork : cmd[b] # "leave"
      BY <2>3, <2>5
    <3> QED
      BY <1>2, <2>5, <3>1, <3>2, CompletingWaitedFor
  <2> QED
    BY <2>1, <2>3, <2>4, <2>5
<1> QED
  BY <1>1, <1>2

LEMMA RequestInitially == Init => RequestInv
<1> SUFFICES ASSUME Init PROVE RequestInv
  OBVIOUS
<1>1. \A c \in Clients : at[c] = "idle"
  BY DEF Init
<1>2. PlaceInv /\ LoneInv /\ UndisturbedInv
  BY <1>1 DEF PlaceInv, LoneInv, UndisturbedInv, Undisturbed, Came
<1> QED
  BY <1>2, InitTypes, InitEstablishes, InitDebt DEF RequestInv, BackupInv

LEMMA RequestPreserved == RequestInv /\ [Next]_vars => RequestInv'
<1> SUFFICES ASSUME RequestInv, [Next]_vars PROVE RequestInv'
  OBVIOUS
<1>1. DebtInv' /\ BackupInv' /\ TypeOK'
  BY DebtPreserved, NextTypes, CalmPreserved, CalmEnds DEF RequestInv, BackupInv
<1> QED
  BY <1>1, PlacePreserved, LonePreserved, UndisturbedPreserved DEF RequestInv

\* The inductive invariant: what is held for whom, and what a request that met no
\* other, or no other that leaves, knows of the files and of QEMU's jobs.
THEOREM RequestInvariant == Spec => []RequestInv
BY RequestInitially, RequestPreserved, PTL DEF Spec

\* main.rs:59-60: whatever fails, stops and restarts, a client that met no other
\* request and is told is told the truth, and it stays true.
THEOREM AlwaysDoneIfAlone == Spec => []DoneIfAlone
<1>1. RequestInv => DoneIfAlone
  <2> SUFFICES ASSUME RequestInv, NEW c \in Clients, at[c] = "done", Others(c) = {}
               PROVE  IF cmd[c] = "enter" THEN file = Disks ELSE file = {}
    BY DEF DoneIfAlone, Others
  <2>1. Doing(c) /\ owed[c] = {}
    BY DEF RequestInv, LoneInv, PlaceInv, Came
  <2> QED
    BY <2>1 DEF Doing, RequestInv, DebtInv, TypeOK
<1> QED
  BY <1>1, RequestInvariant, PTL

\* monitor/mod.rs:192-203 against controller.rs:475 ("wait for the qemu jobs to
\* return success"): what a client that left alone knows when it is told is not
\* that the jobs have succeeded, but that QEMU has at least accepted to complete
\* every one of them, as long as it is calm.
THEOREM LeavingToldWhileCompleting == Spec => []LeaveToldWhileCompleting
<1>1. RequestInv /\ DoneIfAlone => LeaveToldWhileCompleting
  <2> SUFFICES ASSUME RequestInv, DoneIfAlone, calm, up, NEW c \in Clients, at[c] = "done",
                      cmd[c] = "leave", Others(c) = {}, NEW d \in redirected
               PROVE  job[d] = "completing"
    BY DEF LeaveToldWhileCompleting
  <2>1. file = {}
    BY DEF DoneIfAlone, Others
  <2>2. FileFollowsDisk
    BY DEF RequestInv, BackupInv, CalmInv
  <2> QED
    BY <2>1, <2>2 DEF FileFollowsDisk
<1> QED
  BY <1>1, RequestInvariant, AlwaysDoneIfAlone, PTL

\* main.rs:59 and controller.rs:444: backup mode ends only by leaving: under a client
\* that was told it has entered, a disk goes back to its image only if somebody
\* was leaving when the client came or came to leave since.
THEOREM EnteringLastsUndisturbed == Spec => EnterLastsUndisturbed
<1> DEFINE A == calm /\ up /\ up' /\ ~(redirected \subseteq redirected') =>
                  \A c \in Clients : at[c] = "done" /\ cmd[c] = "enter" =>
                      \E b \in Others(c) : cmd[b] = "leave"
<1>1. RequestInv /\ [Next]_vars => A
  <2> SUFFICES ASSUME RequestInv, [Next]_vars, calm, up, up', ~(redirected \subseteq redirected'),
                      NEW c \in Clients, at[c] = "done", cmd[c] = "enter"
               PROVE  \E b \in Others(c) : cmd[b] = "leave"
    OBVIOUS
  <2>1. \E d \in Disks : job[d] = "completing"
    BY DEF Next, Start, Stop, QemuEnds, Panic, JobReadyPanics, RemovePanics, Down,
           Request, EnterBackupMode, LeaveBackupMode, GoOffline, Ask,
           MonitorNext, TakeSnapshot, CommitSnapshot, JobReady, RemoveSnapshot,
           JobNext, BlockJobReady, JobFails, JobCompletes, vars, qemu, clients,
           Acknowledge, OfflineNext, OfflineCreate, OfflineCommit, OfflineRemove, OfflineFinish
  <2>2. ~Undisturbed(c)
    BY <2>1 DEF RequestInv, UndisturbedInv
  <2> QED
    BY <2>2 DEF Undisturbed, Came
<1>2. RequestInv /\ [Next]_vars => [A]_vars
  BY <1>1
<1> QED
  BY <1>2, RequestInvariant, PTL DEF Spec, EnterLastsUndisturbed

\* controller.rs:475: "return the ack downstream" when the jobs are done: with nobody
\* else leaving, no acknowledgement is lost on the way to a disk without its file.
THEOREM SuccessAlwaysToldUndisturbed == Spec => []SuccessIsToldUndisturbed
<1>1. RequestInv => SuccessIsToldUndisturbed
  <2> SUFFICES ASSUME RequestInv, up, file = {}, NEW c \in dropped, cmd[c] # "enter",
                      \A b \in Others(c) : cmd[b] # "leave"
               PROVE  FALSE
    BY DEF SuccessIsToldUndisturbed
  <2>1. c \in Clients /\ cmd[c] = "leave"
    BY DEF RequestInv, DebtInv, TypeOK, Kinds
  <2>2. at[c] = "waiting" /\ owed[c] # {}
    BY <2>1 DEF RequestInv, DebtInv, NoneForgotten
  <2> QED
    BY <2>1, <2>2 DEF RequestInv, UndisturbedInv, Undisturbed, Came
<1> QED
  BY <1>1, RequestInvariant, PTL

-----------------------------------------------------------------------------
(* Standstill *)

\* The guards of the actions of Fairness, negated: the command loop, QEMU's jobs and
\* the tasks of the requests have nothing to do.
NothingToDo ==
    /\ queue = <<>> /\ removing = NotRemoving
    /\ \A d \in Disks : job[d] \in {"none", "ready"}
    /\ \A c \in Clients : at[c] = "waiting" => owed[c] # {} \/ c \in dropped

\* monitor/mod.rs:163-199, control/mod.rs:85: driver and QEMU come to a standstill only
\* when every client that still waits is one that cannot be told, for a refusal, a
\* job that failed or a request that took its place.
THEOREM StandsStillOnlyWhenTold ==
    Spec => [](NothingToDo => \A c \in Clients : at[c] = "waiting" => ~CanBeTold(c))
<1>1. DebtInv /\ NothingToDo => \A c \in Clients : at[c] = "waiting" => ~CanBeTold(c)
  <2> SUFFICES ASSUME DebtInv, NothingToDo, NEW c \in Clients, at[c] = "waiting", CanBeTold(c)
               PROVE  FALSE
    OBVIOUS
  <2>1. c \notin dropped /\ owed[c] # {} /\ owed[c] \subseteq Disks
    BY DEF CanBeTold, NothingToDo, DebtInv, TypeOK
  <2>2. PICK d \in Disks : d \in owed[c] /\ Held(d, c)
    BY <2>1 DEF DebtInv, NoneForgotten
  <2>3. ~Queued(d, c) /\ ~Removes(d, c)
    BY NobodyAssumption DEF NothingToDo, Queued, Removes, NotRemoving
  <2>4. pending[d] = c
    BY <2>2, <2>3 DEF Held
  <2> QED
    BY <2>4 DEF CanBeTold, NothingToDo
<1> QED
  BY <1>1, DebtInvariant, PTL
=============================================================================
