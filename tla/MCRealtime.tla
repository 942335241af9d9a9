----------------------------- MODULE MCRealtime -----------------------------
(* Small instances of Realtime for TLC; the bounds are in the .cfg files.  *)
EXTENDS Realtime

CONSTANT MaxActivity  \* bound: events and the member's list requests, together

ASSUME MaxActivityAssumption == MaxActivity \in Nat

(* The actions that fairness names neither commit an event nor take a      *)
(* request id, so the bound disables none of them.                         *)
WithinActivity == seq + listId <= MaxActivity

FollowsSpec == Init /\ [][Next /\ WithinActivity']_vars /\ Fairness
=============================================================================
