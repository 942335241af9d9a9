------------------------------- MODULE MCInbox -------------------------------
(* Small instances of Inbox for TLC; the bounds are in the .cfg files.     *)
EXTENDS Inbox, TLC

Symmetry == Permutations(Requests)
=============================================================================
