----------------------------- MODULE MoWebhook ------------------------------
(***************************************************************************)
(* The webhook through which LGU+ delivers customers' messages             *)
(* (worker/routes/hooks-mo.ts).  LGU+ sends a batch again, also while an   *)
(* earlier delivery of it is being handled, until it is answered with 200. *)
(*                                                                         *)
(* A delivery is checked without any access to the database; then each     *)
(* message that cannot be decoded is looked up in mo_failures and, unless  *)
(* it has failed QUARANTINE_ATTEMPTS times, counted; then the others are   *)
(* stored in the order of their times.  The batch is acknowledged when all *)
(* are stored and every bad one has failed often enough to be given up.    *)
(*                                                                         *)
(* A batch whose envelope cannot be decoded is one bad message under a key *)
(* made from its text, and nothing to store.  What storing does is Inbox;  *)
(* here it adds the key, and takes the key's failures away.                *)
(***************************************************************************)
EXTENDS Naturals, Sequences, FiniteSets

CONSTANTS
  Batches,             \* sequences of messages, as LGU+ sends them
  Deliveries,          \* webhook requests that may be under way together
  QuarantineAttempts,  \* QUARANTINE_ATTEMPTS, 3
  MaxErrors            \* bound: failures of D1, and deaths, in all

(* A message as it is sent: its key (or the hash of its text), whether it  *)
(* decodes, and its time.                                                  *)
MoKeysOf(b) == {b[i].key : i \in DOMAIN b}
AllMoKeys == UNION {MoKeysOf(b) : b \in Batches}
MoMessages == [key : AllMoKeys, ok : BOOLEAN, at : Nat]

(* No batch carries one key in a message that decodes and in another that  *)
(* does not: storing the one would take the other's failures away each     *)
(* time, and the batch would be sent for ever.                             *)
ASSUME MoAssumption ==
  /\ Batches \subseteq Seq(MoMessages)
  /\ \A b \in Batches : \A i, j \in DOMAIN b : b[i].key = b[j].key => b[i].ok = b[j].ok
  /\ QuarantineAttempts \in Nat \ {0}
  /\ MaxErrors \in Nat

VARIABLES
  failures,   \* mo_failures.attempts, 0 without a row; not counted on above
              \* QuarantineAttempts, which nothing tells apart
  storedMo,   \* keys of the messages stored
  delivery,   \* local state of each webhook request
  ackedMo,    \* batches LGU+ has seen acknowledged
  triedMo,    \* history: deliveries that carried a key in a bad message
  errors      \* failures so far

moVars == <<failures, storedMo, delivery, ackedMo, triedMo, errors>>

Indexes(b) == DOMAIN b
NoDelivery == [pc |-> "idle", batch |-> <<>>, bad |-> {}, good |-> {}, retry |-> FALSE]

MoTypeOK ==
  /\ failures \in [AllMoKeys -> 0 .. QuarantineAttempts]
  /\ storedMo \subseteq AllMoKeys
  /\ \A d \in Deliveries :
       /\ delivery[d].pc \in {"idle", "checking", "recording", "storing"}
       /\ delivery[d].batch \in Batches \union {<<>>}
       /\ delivery[d].bad \union delivery[d].good \subseteq Indexes(delivery[d].batch)
       /\ delivery[d].retry \in BOOLEAN
  /\ ackedMo \subseteq Batches
  /\ triedMo \in [AllMoKeys -> 0 .. QuarantineAttempts]
  /\ errors \in 0 .. MaxErrors

MoInit ==
  /\ failures = [k \in AllMoKeys |-> 0]
  /\ storedMo = {}
  /\ delivery = [d \in Deliveries |-> NoDelivery]
  /\ ackedMo = {}
  /\ triedMo = [k \in AllMoKeys |-> 0]
  /\ errors = 0

Capped(n) == IF n > QuarantineAttempts THEN QuarantineAttempts ELSE n

(* Mutant: every bad message is a failure of its own, also when another    *)
(* one of the batch has the same key.                                      *)
EveryBadMessage(b) == {i \in Indexes(b) : ~b[i].ok}

(* The failures of a batch: one per key, the first.                        *)
DeterministicFailures(b) ==
  {i \in Indexes(b) : ~b[i].ok /\ \A j \in 1 .. i - 1 : b[j].ok \/ b[j].key # b[i].key}

Before(b, i, j) == b[i].at < b[j].at \/ (b[i].at = b[j].at /\ i < j)

-----------------------------------------------------------------------------
(* Where a delivery goes on once a part of its work is done.  It ends with *)
(* 200, or with 400 for a bad message that is not yet given up.            *)
Continue(d, r) ==
  IF r.bad # {} \/ r.good # {}
  THEN /\ delivery' = [delivery EXCEPT ![d] =
                        [r EXCEPT !.pc = IF r.bad # {} THEN "checking" ELSE "storing"]]
       /\ UNCHANGED ackedMo
  ELSE /\ delivery' = [delivery EXCEPT ![d] = NoDelivery]
       /\ ackedMo' = IF r.retry THEN ackedMo ELSE ackedMo \union {r.batch}

(* LGU+ delivers a batch it has not seen acknowledged.                     *)
DeliverBatch(d, b) ==
  /\ delivery[d].pc = "idle" /\ b \notin ackedMo
  /\ Continue(d, [NoDelivery EXCEPT !.batch = b,
                                    !.bad = DeterministicFailures(b),
                                    !.good = {i \in Indexes(b) : b[i].ok}])
  /\ triedMo' = [k \in AllMoKeys |->
                  IF \E i \in Indexes(b) : ~b[i].ok /\ b[i].key = k
                  THEN Capped(triedMo[k] + 1) ELSE triedMo[k]]
  /\ UNCHANGED <<failures, storedMo, errors>>

(* The next bad message: the smallest index, as the Map keeps them.        *)
NextBad(d) == CHOOSE i \in delivery[d].bad : \A j \in delivery[d].bad : i <= j

IsQuarantined(d) ==
  /\ delivery[d].pc = "checking"
  /\ IF failures[delivery[d].batch[NextBad(d)].key] >= QuarantineAttempts
     THEN Continue(d, [delivery[d] EXCEPT !.bad = delivery[d].bad \ {NextBad(d)}])
     ELSE /\ delivery' = [delivery EXCEPT ![d].pc = "recording"]
          /\ UNCHANGED ackedMo
  /\ UNCHANGED <<failures, storedMo, triedMo, errors>>

(* Mutant: a failure that is already there is counted from one again.      *)
RecordFailureAnew(d) ==
  /\ delivery[d].pc = "recording"
  /\ failures' = [failures EXCEPT ![delivery[d].batch[NextBad(d)].key] = 1]
  /\ Continue(d, [delivery[d] EXCEPT !.bad = delivery[d].bad \ {NextBad(d)},
                                     !.retry = TRUE])
  /\ UNCHANGED <<storedMo, triedMo, errors>>

RecordFailure(d) ==
  /\ delivery[d].pc = "recording"
  /\ LET key == delivery[d].batch[NextBad(d)].key
         attempts == Capped(failures[key] + 1)
     IN /\ failures' = [failures EXCEPT ![key] = attempts]
        /\ Continue(d, [delivery[d] EXCEPT
                         !.bad = delivery[d].bad \ {NextBad(d)},
                         !.retry = delivery[d].retry \/ attempts < QuarantineAttempts])
  /\ UNCHANGED <<storedMo, triedMo, errors>>

(* Storing a message again changes nothing but its failures.               *)
StorePreparedItem(d) ==
  /\ delivery[d].pc = "storing"
  /\ \E i \in delivery[d].good :
       LET b == delivery[d].batch
       IN /\ \A j \in delivery[d].good \ {i} : Before(b, i, j)
          /\ storedMo' = storedMo \union {b[i].key}
          /\ failures' = [failures EXCEPT ![b[i].key] = 0]
          /\ Continue(d, [delivery[d] EXCEPT !.good = delivery[d].good \ {i}])
  /\ UNCHANGED <<triedMo, errors>>

(* D1 throws, the office has no default phone yet, or the worker stops:    *)
(* the delivery is answered with 500, or not at all.                       *)
DeliveryFails(d) ==
  /\ delivery[d].pc # "idle" /\ errors < MaxErrors
  /\ delivery' = [delivery EXCEPT ![d] = NoDelivery]
  /\ errors' = errors + 1
  /\ UNCHANGED <<failures, storedMo, ackedMo, triedMo>>

DeliveryStep(d) == IsQuarantined(d) \/ RecordFailure(d) \/ StorePreparedItem(d)

MoNext ==
  \E d \in Deliveries :
    (\E b \in Batches : DeliverBatch(d, b)) \/ DeliveryStep(d) \/ DeliveryFails(d)

(* LGU+ sends a batch until it is acknowledged, a request that was begun   *)
(* goes on, and D1 does not fail for ever (MaxErrors).                     *)
MoFairness ==
  /\ \A b \in Batches : WF_moVars(\E d \in Deliveries : DeliverBatch(d, b))
  /\ \A d \in Deliveries : WF_moVars(DeliveryStep(d))

MoSpec == MoInit /\ [][MoNext]_moVars /\ MoFairness

-----------------------------------------------------------------------------
(* An acknowledged batch is never sent again, so every message of it that  *)
(* decodes is stored, and one that does not was delivered as often as the  *)
(* code gives it a chance before it is given up, however many deliveries   *)
(* counted it in parallel.                                                 *)
AcknowledgedMessagesAreKept ==
  \A b \in ackedMo : \A i \in Indexes(b) :
    IF b[i].ok THEN b[i].key \in storedMo ELSE triedMo[b[i].key] >= QuarantineAttempts

(* A bad message holds its batch back for a while, never for good.         *)
BatchesAreAcknowledged == <>(ackedMo = Batches)
=============================================================================
