------------------------------- MODULE MCInput -------------------------------
(* A modifier, a key with two hotkeys, and a button.                          *)
EXTENDS Input, TLC

MCModifierOf == [k \in Keys |-> IF k = "x" THEN NoModifier ELSE "Ctrl"]

MCBindings == <<[modifiers |-> {"Ctrl"}, key |-> "x", action |-> "IoExit"],
                [modifiers |-> {"Ctrl"}, key |-> "x", action |-> "IoEntryForced"]>>

\* Without the outputs of the last handler and Controller's history.
Relevant == <<ga, io, tempSender, entryChan, grabs, usb, timers, waiters, inputVars>>
=============================================================================
