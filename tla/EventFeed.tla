------------------------------ MODULE EventFeed ------------------------------
(***************************************************************************)
(* What the realtime layer promises one open inbox about the office's      *)
(* event log, whatever happens to sockets, frames and requests: the inbox  *)
(* takes the events in without a gap and in order, and a member is         *)
(* notified of an event at most once, at the moment the inbox takes it in. *)
(* Realtime.tla, the detailed specification, implements this one.          *)
(***************************************************************************)
EXTENDS Naturals

CONSTANT MaxSeq   \* bound on the events of the office

VARIABLES
  seq,       \* events committed so far
  seen,      \* the inbox has taken in the events 1 .. seen
  notified   \* how often the member was notified of an event

vars == <<seq, seen, notified>>

Events == 1 .. MaxSeq

Init ==
  /\ seq = 0
  /\ seen = 0
  /\ notified = [n \in Events |-> 0]

Publish ==
  /\ seq < MaxSeq
  /\ seq' = seq + 1
  /\ UNCHANGED <<seen, notified>>

(* The inbox takes in everything up to n, notifying of all of it or not. *)
TakeIn(n) ==
  /\ seen < n /\ n <= seq
  /\ seen' = n
  /\ \/ notified' = [e \in Events |-> IF e \in seen + 1 .. n THEN notified[e] + 1
                                      ELSE notified[e]]
     \/ UNCHANGED notified
  /\ UNCHANGED seq

Next == Publish \/ \E n \in Events : TakeIn(n)

Spec == Init /\ [][Next]_vars
=============================================================================
