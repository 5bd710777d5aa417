---------------------------- MODULE MCController ----------------------------
(* The controller on a small instance.                                     *)
EXTENDS Controller, TLC

SymmetricSets == Permutations(Devices) \cup Permutations(Timers) \cup
                 Permutations(Waiters) \cup Permutations(Senders)
=============================================================================
