--------------------------- MODULE MCControlServer ---------------------------
(* Two clients of the control socket and two entries at a time.            *)
EXTENDS ControlServer, TLC

SymmetricSets == Permutations(Conns) \cup Permutations(Senders)

\* Without the history variables and the outputs of the last handler:
\* no action reads them, and no property of the runs with this view.
Relevant == <<ga, io, tempSender, entryChan, grabs, usb, timers, waiters, serverVars>>
=============================================================================
