--------------------------- MODULE SuspendWithHost ---------------------------
(***************************************************************************)
(* What the driver promises logind when it takes its delay lock, "Suspend  *)
(* guest with the host" (sleep_inhibitor.rs): the host goes to sleep only  *)
(* with a guest that sleeps, unless there is an excuse for this time.      *)
(***************************************************************************)
VARIABLES
    host,    \* "Preparing" from PrepareForSleep until the host sleeps
    guest,   \* "Awake" or "Asleep"; a guest that is off is asleep, too
    excused  \* an excuse holds for the sleep that is being prepared

vars == <<host, guest, excused>>

Init ==
    /\ host = "Awake"
    /\ guest = "Awake"
    /\ excused = FALSE

Prepare ==
    /\ host = "Awake"
    /\ host' = "Preparing"
    /\ excused' \in BOOLEAN
    /\ UNCHANGED guest

\* The host sleeps and wakes up again; nothing else happens meanwhile.
Sleep ==
    /\ host = "Preparing"
    /\ guest = "Asleep" \/ excused
    /\ host' = "Awake"
    /\ excused' \in BOOLEAN
    /\ UNCHANGED guest

GuestGoesToSleep == guest' = "Asleep" /\ UNCHANGED <<host, excused>>

GuestWakesUp ==
    /\ guest' = "Awake"
    /\ excused' \in {excused, TRUE}
    /\ UNCHANGED host

Excuse == excused' = TRUE /\ UNCHANGED <<host, guest>>

Next == Prepare \/ Sleep \/ GuestGoesToSleep \/ GuestWakesUp \/ Excuse

Spec == Init /\ [][Next]_vars
=============================================================================
