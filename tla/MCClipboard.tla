----------------------------- MODULE MCClipboard -----------------------------
(* The clipboards of host and guest with two types of data.                *)
EXTENDS Clipboard, TLC

SymmetricTypes == Permutations(Types)
=============================================================================
