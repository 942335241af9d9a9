-------------------------- MODULE DeliveryLifecycle --------------------------
(***************************************************************************)
(* What the outbound path promises of every message a member sends, with   *)
(* no request handlers, webhooks, cron or provider in sight:               *)
(*   - a client key gives at most one message and at most one hand-over to *)
(*     a carrier, however often the browser posts it;                      *)
(*   - the delivery status only moves up the ladder of Rank, and a         *)
(*     terminal status is final;                                           *)
(*   - every change of status is announced to the office, in order, by the *)
(*     very step that makes it.                                            *)
(* Delivery.tla, the detailed specification, implements this one.          *)
(***************************************************************************)
EXTENDS Naturals, Sequences

CONSTANTS
  Keys,        \* client keys, one per message a member composes
  Requests     \* identities under which a message may be handed over

VARIABLES
  status,      \* delivery status by client key, "none" before it exists
  announced,   \* the statuses published to the office, by client key
  handedOver   \* the hand-overs made to a carrier, by client key

vars == <<status, announced, handedOver>>

Statuses == {"none", "pending", "accepted", "sending", "completed", "failed"}

Rank(s) ==
  CASE s = "none"     -> 0
    [] s = "pending"  -> 1
    [] s = "accepted" -> 2
    [] s = "sending"  -> 3
    [] OTHER          -> 4

Init ==
  /\ status     = [k \in Keys |-> "none"]
  /\ announced  = [k \in Keys |-> << >>]
  /\ handedOver = [k \in Keys |-> {}]

(* The status of k rises to s and the office is told so. *)
Rise(k, s) ==
  /\ Rank(status[k]) < Rank(s)
  /\ status'    = [status EXCEPT ![k] = s]
  /\ announced' = [announced EXCEPT ![k] = Append(@, s)]

Create(k) ==
  /\ status[k] = "none"
  /\ Rise(k, "pending")
  /\ UNCHANGED handedOver

Advance(k) ==
  /\ status[k] # "none"
  /\ \E s \in Statuses : Rise(k, s)
  /\ UNCHANGED handedOver

HandOver(k) ==
  /\ status[k] # "none"
  /\ handedOver[k] = {}
  /\ \E r \in Requests : handedOver' = [handedOver EXCEPT ![k] = {r}]
  /\ UNCHANGED <<status, announced>>

Next == \E k \in Keys : Create(k) \/ Advance(k) \/ HandOver(k)

Spec == Init /\ [][Next]_vars
=============================================================================
