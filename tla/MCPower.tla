------------------------------- MODULE MCPower -------------------------------
(* The driver, its guest and the host's logind.                            *)
EXTENDS Power

\* The driver ends with QEMU or in a panic, and so may everything else.
Ends == DriverOver /\ UNCHANGED powerVars

MCSpec == Init /\ PowerInit /\ [][PowerNext \/ Ends]_powerVars /\ PowerFairness

\* Nothing that is done to suspend or to wake depends on ioVars, on the
\* outputs of the last handler or on Controller's history variables.
Relevant == <<ga, timers, waiters, guestVars, hostVars, ownWake, slipped, lost>>
=============================================================================
