----------------------------- MODULE IntakeProofs -----------------------------
(***************************************************************************)
(* Proofs about what LGU+ brings, for any batches, any number of webhook   *)
(* requests, of rows and of cron runs that cross: an acknowledged message  *)
(* is stored, or had its attempts (MoWebhook); a row is settled once and   *)
(* announced then, and what is shown as completed is there (Downloads).    *)
(***************************************************************************)
EXTENDS MCIntake, FiniteSetTheorems, TLAPS

-----------------------------------------------------------------------------
(***************************************************************************)
(* MoWebhook.                                                              *)
(***************************************************************************)
DeliveryStates ==
  {x \in [pc : {"idle", "checking", "recording", "storing"}, batch : Batches \union {<<>>},
          bad : SUBSET Nat, good : SUBSET Nat, retry : BOOLEAN] :
     x.bad \union x.good \subseteq Indexes(x.batch)}

(* The deliveries that have still to count a key, each once.               *)
HoldsKey(x, k) == x.pc # "idle" /\ \E i \in x.bad : x.batch[i].key = k
Holding(k) == {d \in Deliveries : HoldsKey(delivery[d], k)}

(* A failure that is counted, or will be, is of a delivery that carried    *)
(* the key: until the deliveries are as many as the attempts, the count    *)
(* and the deliveries that have not counted yet are no more than these.    *)
FailuresAreTries ==
  \A k \in AllMoKeys :
    /\ IsFiniteSet(Holding(k))
    /\ triedMo[k] < QuarantineAttempts => failures[k] + Cardinality(Holding(k)) <= triedMo[k]

(* What a delivery has yet to do: its bad messages are of different keys,  *)
(* and none is left out that is neither done nor a reason to retry.        *)
Knows(x) ==
  /\ x.batch \in Batches
  /\ \A i \in x.bad : ~x.batch[i].ok
  /\ \A i, j \in x.bad : x.batch[i].key = x.batch[j].key => i = j
  /\ \A i \in Indexes(x.batch) :
       IF x.batch[i].ok
       THEN i \in x.good \/ x.batch[i].key \in storedMo
       ELSE \/ \E j \in x.bad : x.batch[j].key = x.batch[i].key
            \/ x.retry
            \/ triedMo[x.batch[i].key] >= QuarantineAttempts

DeliveriesKnow ==
  \A d \in Deliveries :
    delivery[d].pc # "idle" =>
      /\ Knows(delivery[d])
      /\ delivery[d].pc \in {"checking", "recording"} => delivery[d].bad # {}

(* What AcknowledgedMessagesAreKept says of one batch.                     *)
Kept(b) ==
  \A i \in Indexes(b) :
    IF b[i].ok THEN b[i].key \in storedMo ELSE triedMo[b[i].key] >= QuarantineAttempts

MoInv ==
  /\ MoTypeOK
  /\ delivery \in [Deliveries -> DeliveryStates]
  /\ FailuresAreTries
  /\ DeliveriesKnow
  /\ AcknowledgedMessagesAreKept

-----------------------------------------------------------------------------
LEMMA LeastNatural ==
  ASSUME NEW S \in SUBSET Nat, S # {}
  PROVE  \E m \in S : \A n \in S : m <= n
<1>1. \E m \in S : \A n \in S : ~(<<n, m>> \in OpToRel(<, Nat))
  BY NatLessThanWellFounded, WFMin
<1>2. PICK m \in S : \A n \in S : ~(<<n, m>> \in OpToRel(<, Nat))
  BY <1>1
<1>3. \A n \in S : ~(n < m)
  BY <1>2 DEF OpToRel
<1> QED
  BY <1>3

LEMMA MessagesOfBatch ==
  ASSUME NEW b \in Batches
  PROVE  /\ Indexes(b) \subseteq Nat
         /\ \A i \in Indexes(b) : b[i] \in MoMessages
         /\ b \in Seq(MoMessages) /\ Indexes(b) = 1 .. Len(b) /\ Len(b) \in Nat
<1>1. b \in Seq(MoMessages)
  BY MoAssumption
<1> QED
  BY <1>1 DEF Indexes

(* Each bad message of a batch has one that stands for its key.            *)
LEMMA FailuresStandForKeys ==
  ASSUME NEW b \in Batches
  PROVE  /\ DeterministicFailures(b) \subseteq Indexes(b)
         /\ \A i \in DeterministicFailures(b) : ~b[i].ok
         /\ \A i, j \in DeterministicFailures(b) : b[i].key = b[j].key => i = j
         /\ \A i \in Indexes(b) : ~b[i].ok =>
              \E j \in DeterministicFailures(b) : b[j].key = b[i].key
<1>0. Indexes(b) = 1 .. Len(b) /\ Len(b) \in Nat
  BY MessagesOfBatch
<1>1. /\ DeterministicFailures(b) \subseteq Indexes(b)
      /\ \A i \in DeterministicFailures(b) : ~b[i].ok
  BY DEF DeterministicFailures
<1>2. ASSUME NEW i \in DeterministicFailures(b), NEW j \in DeterministicFailures(b),
             b[i].key = b[j].key, i < j
      PROVE  FALSE
  <2>1. i \in 1 .. j - 1
    BY <1>0, <1>1, <1>2
  <2> QED
    BY <1>1, <1>2, <2>1 DEF DeterministicFailures
<1>3. ASSUME NEW i \in Indexes(b), ~b[i].ok
      PROVE  \E j \in DeterministicFailures(b) : b[j].key = b[i].key
  <2> DEFINE S == {j \in Indexes(b) : ~b[j].ok /\ b[j].key = b[i].key}
  <2>1. S \in SUBSET Nat /\ S # {}
    BY <1>0, <1>3
  <2>2. PICK m \in S : \A n \in S : m <= n
    BY <2>1, LeastNatural
  <2>3. \A j \in 1 .. m - 1 : j \in Indexes(b) /\ j \notin S
    BY <1>0, <2>2
  <2>4. m \in DeterministicFailures(b)
    BY <2>2, <2>3 DEF DeterministicFailures
  <2> QED
    BY <2>4
<1>4. \A i, j \in DeterministicFailures(b) : b[i].key = b[j].key => i = j
  BY <1>0, <1>1, <1>2
<1> QED
  BY <1>1, <1>3, <1>4

LEMMA NextBadIsBad ==
  ASSUME NEW d \in Deliveries, delivery[d].bad \in SUBSET Nat, delivery[d].bad # {}
  PROVE  NextBad(d) \in delivery[d].bad
<1>1. \E i \in delivery[d].bad : \A j \in delivery[d].bad : i <= j
  BY LeastNatural
<1> QED
  BY <1>1 DEF NextBad

(* What a delivery knows stays true while rows and deliveries are added.   *)
LEMMA KnowledgeStays ==
  ASSUME NEW x, Knows(x), storedMo \subseteq storedMo', triedMo \in [AllMoKeys -> Nat],
         triedMo' \in [AllMoKeys -> Nat], \A k \in AllMoKeys : triedMo[k] <= triedMo'[k]
  PROVE  Knows(x)'
<1>1. \A i \in Indexes(x.batch) : x.batch[i].key \in AllMoKeys
  BY MessagesOfBatch DEF Knows, MoMessages
<1>2. \A k \in AllMoKeys : triedMo[k] >= QuarantineAttempts => triedMo'[k] >= QuarantineAttempts
  BY MoAssumption
<1> QED
  BY <1>1, <1>2 DEF Knows

(* The next two say what is left to show of a step that moves one delivery *)
(* and acknowledges its batch at most.                                     *)
LEMMA DeliveryMoves ==
  ASSUME MoInv, NEW d \in Deliveries, NEW x \in DeliveryStates,
         delivery' = [delivery EXCEPT ![d] = x],
         x.pc # "idle" => Knows(x)' /\ (x.pc \in {"checking", "recording"} => x.bad # {}),
         failures' \in [AllMoKeys -> 0 .. QuarantineAttempts], storedMo' \subseteq AllMoKeys,
         triedMo' \in [AllMoKeys -> 0 .. QuarantineAttempts], errors' \in 0 .. MaxErrors,
         storedMo \subseteq storedMo', \A k \in AllMoKeys : triedMo[k] <= triedMo'[k],
         FailuresAreTries',
         \/ UNCHANGED ackedMo
         \/ \E b \in Batches : ackedMo' = ackedMo \union {b} /\ Kept(b)'
  PROVE  MoInv'
<1>0. /\ MoTypeOK /\ delivery \in [Deliveries -> DeliveryStates]
      /\ triedMo \in [AllMoKeys -> Nat] /\ triedMo' \in [AllMoKeys -> Nat]
  BY MoAssumption DEF MoInv, MoTypeOK
<1>1. /\ delivery' \in [Deliveries -> DeliveryStates]
      /\ delivery'[d] = x /\ \A q \in Deliveries : q # d => delivery'[q] = delivery[q]
  BY <1>0
<1>2. ackedMo' \subseteq Batches
  BY <1>0 DEF MoTypeOK
<1>3. MoTypeOK'
  BY <1>1, <1>2 DEF MoTypeOK, DeliveryStates
<1>4. DeliveriesKnow'
  <2>1. ASSUME NEW q \in Deliveries, delivery'[q].pc # "idle", NEW y, y = delivery'[q]
        PROVE  Knows(y)' /\ (y.pc \in {"checking", "recording"} => y.bad # {})
    <3>1. CASE q = d
      BY <1>1, <2>1, <3>1
    <3>2. CASE q # d
      <4>1. y = delivery[q] /\ y.pc # "idle"
        BY <1>1, <2>1, <3>2
      <4>2. Knows(y) /\ (y.pc \in {"checking", "recording"} => y.bad # {})
        BY <4>1 DEF MoInv, DeliveriesKnow
      <4> QED
        BY <1>0, <4>2, KnowledgeStays
    <3> QED
      BY <3>1, <3>2
  <2> QED
    BY <2>1 DEF DeliveriesKnow, Knows
<1>5. AcknowledgedMessagesAreKept'
  <2> SUFFICES ASSUME NEW b \in ackedMo' PROVE Kept(b)'
    BY DEF AcknowledgedMessagesAreKept, Kept
  <2>1. CASE b \in ackedMo
    <3>1. Kept(b) /\ b \in Batches
      BY <1>0, <2>1 DEF MoInv, AcknowledgedMessagesAreKept, Kept, MoTypeOK
    <3>2. \A i \in Indexes(b) : b[i].key \in AllMoKeys
      BY <3>1, MessagesOfBatch DEF MoMessages
    <3>3. \A k \in AllMoKeys :
            triedMo[k] >= QuarantineAttempts => triedMo'[k] >= QuarantineAttempts
      BY <1>0, MoAssumption
    <3> QED
      BY <3>1, <3>2, <3>3 DEF Kept
  <2>2. CASE b \notin ackedMo
    BY <2>2
  <2> QED
    BY <2>1, <2>2
<1> QED
  BY <1>1, <1>3, <1>4, <1>5 DEF MoInv

-----------------------------------------------------------------------------
LEMMA InitMoInv == MoInit => MoInv
<1> SUFFICES ASSUME MoInit PROVE MoInv
  OBVIOUS
<1> USE MoAssumption DEF MoInit
<1>1. /\ NoDelivery \in DeliveryStates
      /\ \A d \in Deliveries : delivery[d] = NoDelivery
  BY DEF NoDelivery, DeliveryStates, Indexes
<1>2. delivery \in [Deliveries -> DeliveryStates]
  BY <1>1
<1>t. MoTypeOK
  <2>1. 0 \in 0 .. QuarantineAttempts /\ 0 \in 0 .. MaxErrors
    OBVIOUS
  <2>2. /\ failures \in [AllMoKeys -> 0 .. QuarantineAttempts]
        /\ triedMo \in [AllMoKeys -> 0 .. QuarantineAttempts]
    BY <2>1
  <2>3. \A d \in Deliveries :
          /\ delivery[d].pc = "idle" /\ delivery[d].batch = <<>> /\ delivery[d].bad = {}
          /\ delivery[d].good = {} /\ delivery[d].retry = FALSE
    BY <1>1 DEF NoDelivery
  <2> QED
    BY <2>1, <2>2, <2>3 DEF MoTypeOK
<1>3. ASSUME NEW k \in AllMoKeys
      PROVE  /\ IsFiniteSet(Holding(k)) /\ Cardinality(Holding(k)) = 0
             /\ failures[k] = 0 /\ triedMo[k] = 0
  <2>1. Holding(k) = {}
    BY <1>1 DEF Holding, HoldsKey, NoDelivery
  <2> QED
    BY <2>1, FS_EmptySet
<1>4. FailuresAreTries
  BY <1>3 DEF FailuresAreTries
<1>5. DeliveriesKnow /\ AcknowledgedMessagesAreKept
  BY <1>1 DEF DeliveriesKnow, NoDelivery, AcknowledgedMessagesAreKept
<1> QED
  BY <1>2, <1>t, <1>4, <1>5 DEF MoInv

(* What is known of a delivery that is under way.                          *)
LEMMA UnderWay ==
  ASSUME MoInv, NEW d \in Deliveries, delivery[d].pc # "idle"
  PROVE  /\ Knows(delivery[d]) /\ delivery[d] \in DeliveryStates
         /\ delivery[d].batch \in Batches
         /\ delivery[d].bad \in SUBSET Nat
         /\ delivery[d].bad \subseteq Indexes(delivery[d].batch)
         /\ \A i \in Indexes(delivery[d].batch) : delivery[d].batch[i].key \in AllMoKeys
         /\ delivery[d].pc \in {"checking", "recording"} => NextBad(d) \in delivery[d].bad
<1>1. delivery[d] \in DeliveryStates
  BY DEF MoInv
<1>2. Knows(delivery[d]) /\ delivery[d].batch \in Batches
  BY DEF MoInv, DeliveriesKnow, Knows
<1>3. \A i \in Indexes(delivery[d].batch) : delivery[d].batch[i].key \in AllMoKeys
  BY <1>2, MessagesOfBatch DEF MoMessages
<1>4. /\ delivery[d].bad \in SUBSET Nat
      /\ delivery[d].bad \subseteq Indexes(delivery[d].batch)
  BY <1>1 DEF DeliveryStates
<1>5. delivery[d].pc \in {"checking", "recording"} => NextBad(d) \in delivery[d].bad
  BY <1>4, NextBadIsBad DEF MoInv, DeliveriesKnow
<1> QED
  BY <1>1, <1>2, <1>3, <1>4, <1>5

(* The keys a delivery holds once it has gone on.                          *)
LEMMA ContinueHolds ==
  ASSUME MoInv, NEW d \in Deliveries, NEW r, Continue(d, r), NEW k
  PROVE  /\ Holding(k)' \subseteq Holding(k) \union {d}
         /\ (~\E i \in r.bad : r.batch[i].key = k) => Holding(k)' \subseteq Holding(k) \ {d}
<1> DEFINE x == IF r.bad # {} \/ r.good # {}
                THEN [r EXCEPT !.pc = IF r.bad # {} THEN "checking" ELSE "storing"]
                ELSE NoDelivery
<1>1. delivery' = [delivery EXCEPT ![d] = x] /\ delivery \in [Deliveries -> DeliveryStates]
  BY DEF Continue, MoInv
<1> HIDE DEF x
<1>2. delivery'[d] = x /\ \A q \in Deliveries : q # d => delivery'[q] = delivery[q]
  BY <1>1
<1>3. (~\E i \in r.bad : r.batch[i].key = k) => ~HoldsKey(x, k)
  BY DEF x, HoldsKey, NoDelivery
<1>4. \A q \in Deliveries : q # d => (HoldsKey(delivery[q], k)' <=> HoldsKey(delivery[q], k))
  BY <1>2 DEF HoldsKey
<1>5. HoldsKey(delivery[d], k)' <=> HoldsKey(x, k)
  BY <1>2 DEF HoldsKey
<1> QED
  BY <1>3, <1>4, <1>5 DEF Holding

(* A delivery goes on, and ends when nothing is left to do: what it knows  *)
(* then is what an acknowledgement says.                                   *)
LEMMA ContinueMoves ==
  ASSUME MoInv, NEW d \in Deliveries, NEW r \in DeliveryStates, Continue(d, r), Knows(r)',
         failures' \in [AllMoKeys -> 0 .. QuarantineAttempts], storedMo' \subseteq AllMoKeys,
         triedMo' \in [AllMoKeys -> 0 .. QuarantineAttempts], errors' \in 0 .. MaxErrors,
         storedMo \subseteq storedMo', \A k \in AllMoKeys : triedMo[k] <= triedMo'[k],
         FailuresAreTries'
  PROVE  MoInv'
<1>1. CASE r.bad # {} \/ r.good # {}
  <2> DEFINE x == [r EXCEPT !.pc = IF r.bad # {} THEN "checking" ELSE "storing"]
  <2>1. /\ x \in DeliveryStates
        /\ x.batch = r.batch /\ x.bad = r.bad /\ x.good = r.good /\ x.retry = r.retry
        /\ x.pc \in {"checking", "recording"} => x.bad # {}
    BY DEF DeliveryStates
  <2>2. delivery' = [delivery EXCEPT ![d] = x] /\ UNCHANGED ackedMo
    BY <1>1 DEF Continue
  <2> HIDE DEF x
  <2>3. Knows(x)'
    BY <2>1 DEF Knows
  <2> QED
    BY <2>1, <2>2, <2>3, DeliveryMoves
<1>2. CASE r.bad = {} /\ r.good = {}
  <2>1. NoDelivery \in DeliveryStates /\ NoDelivery.pc = "idle"
    BY DEF NoDelivery, DeliveryStates, Indexes
  <2>2. /\ delivery' = [delivery EXCEPT ![d] = NoDelivery]
        /\ ackedMo' = IF r.retry THEN ackedMo ELSE ackedMo \union {r.batch}
    BY <1>2 DEF Continue
  <2>3. ~r.retry => Kept(r.batch)' /\ r.batch \in Batches
    BY <1>2 DEF Knows, Kept
  <2>4. \/ UNCHANGED ackedMo
        \/ \E b \in Batches : ackedMo' = ackedMo \union {b} /\ Kept(b)'
    BY <2>2, <2>3
  <2> QED
    BY <2>1, <2>2, <2>4, DeliveryMoves
<1> QED
  BY <1>1, <1>2

(* A step in which no delivery begins to hold a key and no count rises.    *)
LEMMA FailuresStay ==
  ASSUME MoInv, NEW k \in AllMoKeys, Holding(k)' \subseteq Holding(k),
         failures'[k] \in Nat, failures'[k] <= failures[k], UNCHANGED triedMo
  PROVE  /\ IsFiniteSet(Holding(k)')
         /\ triedMo'[k] < QuarantineAttempts =>
              failures'[k] + Cardinality(Holding(k)') <= triedMo'[k]
<1>1. /\ IsFiniteSet(Holding(k))
      /\ triedMo[k] < QuarantineAttempts => failures[k] + Cardinality(Holding(k)) <= triedMo[k]
      /\ triedMo[k] \in Nat /\ failures[k] \in Nat
  BY MoAssumption DEF MoInv, FailuresAreTries, MoTypeOK
<1>2. /\ IsFiniteSet(Holding(k)') /\ Cardinality(Holding(k)') <= Cardinality(Holding(k))
      /\ Cardinality(Holding(k)) \in Nat /\ Cardinality(Holding(k)') \in Nat
  BY <1>1, FS_Subset, FS_CardinalityType
<1> QED
  BY <1>1, <1>2

-----------------------------------------------------------------------------
LEMMA DeliverKeepsInv ==
  ASSUME MoInv, NEW d \in Deliveries, NEW b \in Batches, DeliverBatch(d, b)
  PROVE  MoInv'
<1> DEFINE r == [NoDelivery EXCEPT !.batch = b,
                                   !.bad = DeterministicFailures(b),
                                   !.good = {i \in Indexes(b) : b[i].ok}]
           carried(k) == \E i \in Indexes(b) : ~b[i].ok /\ b[i].key = k
<1>1. /\ failures \in [AllMoKeys -> 0 .. QuarantineAttempts] /\ storedMo \subseteq AllMoKeys
      /\ triedMo \in [AllMoKeys -> 0 .. QuarantineAttempts] /\ errors \in 0 .. MaxErrors
      /\ QuarantineAttempts \in Nat
  BY MoAssumption DEF MoInv, MoTypeOK
<1>2. /\ Continue(d, r) /\ UNCHANGED <<failures, storedMo, errors>>
      /\ triedMo' = [k \in AllMoKeys |-> IF carried(k) THEN Capped(triedMo[k] + 1)
                                         ELSE triedMo[k]]
      /\ delivery[d].pc = "idle"
  BY DEF DeliverBatch
<1>3. /\ r.batch = b /\ r.bad = DeterministicFailures(b)
      /\ r.good = {i \in Indexes(b) : b[i].ok} /\ r.pc = "idle" /\ r.retry = FALSE
  BY DEF NoDelivery
<1>4. r \in DeliveryStates
  <2>1. r.bad \subseteq Indexes(b) /\ r.good \subseteq Indexes(b) /\ Indexes(b) \subseteq Nat
    BY <1>3, FailuresStandForKeys, MessagesOfBatch
  <2> QED
    BY <2>1 DEF DeliveryStates, NoDelivery
<1> HIDE DEF r, carried
<1>5. /\ triedMo' \in [AllMoKeys -> 0 .. QuarantineAttempts]
      /\ \A k \in AllMoKeys : triedMo[k] <= triedMo'[k]
  BY <1>1, <1>2 DEF Capped
<1>6. Knows(r)'
  <2>1. Knows(r)
    BY <1>3, FailuresStandForKeys DEF Knows
  <2>2. triedMo \in [AllMoKeys -> Nat] /\ triedMo' \in [AllMoKeys -> Nat]
    BY <1>1, <1>5
  <2> QED
    BY <1>2, <1>5, <2>1, <2>2, KnowledgeStays
<1>7. ASSUME NEW k \in AllMoKeys
      PROVE  /\ IsFiniteSet(Holding(k)')
             /\ triedMo'[k] < QuarantineAttempts =>
                  failures'[k] + Cardinality(Holding(k)') <= triedMo'[k]
  <2>1. /\ IsFiniteSet(Holding(k))
        /\ triedMo[k] < QuarantineAttempts =>
             failures[k] + Cardinality(Holding(k)) <= triedMo[k]
        /\ triedMo[k] \in Nat /\ failures[k] \in Nat /\ failures'[k] = failures[k]
    BY <1>1, <1>2 DEF MoInv, FailuresAreTries
  <2>2. CASE carried(k)
    <3>0. Cardinality(Holding(k)) \in Nat
      BY <2>1, FS_CardinalityType
    <3>1. /\ IsFiniteSet(Holding(k) \union {d})
          /\ \/ Cardinality(Holding(k) \union {d}) = Cardinality(Holding(k))
             \/ Cardinality(Holding(k) \union {d}) = Cardinality(Holding(k)) + 1
      BY <2>1, FS_AddElement
    <3>2. Holding(k)' \subseteq Holding(k) \union {d}
      BY <1>2, ContinueHolds
    <3>3. /\ IsFiniteSet(Holding(k)')
          /\ Cardinality(Holding(k)') <= Cardinality(Holding(k) \union {d})
          /\ Cardinality(Holding(k)') \in Nat /\ Cardinality(Holding(k)) \in Nat
          /\ Cardinality(Holding(k) \union {d}) \in Nat
      BY <2>1, <3>1, <3>2, FS_Subset, FS_CardinalityType
    <3>4. triedMo'[k] = Capped(triedMo[k] + 1)
      BY <1>2, <2>2
    <3>5. triedMo'[k] < QuarantineAttempts =>
            triedMo'[k] = triedMo[k] + 1 /\ triedMo[k] < QuarantineAttempts
      BY <1>1, <2>1, <3>4 DEF Capped
    <3> QED
      BY <2>1, <3>0, <3>1, <3>3, <3>5
  <2>3. CASE ~carried(k)
    <3>1. ~\E i \in r.bad : r.batch[i].key = k
      BY <1>3, <2>3, FailuresStandForKeys DEF carried
    <3>2. Holding(k)' \subseteq Holding(k)
      BY <1>2, <3>1, ContinueHolds
    <3>3. /\ IsFiniteSet(Holding(k)') /\ Cardinality(Holding(k)') <= Cardinality(Holding(k))
          /\ Cardinality(Holding(k)') \in Nat /\ Cardinality(Holding(k)) \in Nat
      BY <2>1, <3>2, FS_Subset, FS_CardinalityType
    <3>4. triedMo'[k] = triedMo[k]
      BY <1>2, <2>3
    <3> QED
      BY <2>1, <3>3, <3>4
  <2> QED
    BY <2>2, <2>3
<1>8. FailuresAreTries'
  BY <1>7 DEF FailuresAreTries
<1> QED
  BY <1>1, <1>2, <1>4, <1>5, <1>6, <1>8, ContinueMoves

LEMMA QuarantineKeepsInv ==
  ASSUME MoInv, NEW d \in Deliveries, IsQuarantined(d)
  PROVE  MoInv'
<1> DEFINE n == NextBad(d)
           b == delivery[d].batch
<1>0. /\ failures \in [AllMoKeys -> 0 .. QuarantineAttempts] /\ storedMo \subseteq AllMoKeys
      /\ triedMo \in [AllMoKeys -> 0 .. QuarantineAttempts] /\ errors \in 0 .. MaxErrors
      /\ QuarantineAttempts \in Nat /\ delivery \in [Deliveries -> DeliveryStates]
  BY MoAssumption DEF MoInv, MoTypeOK
<1>1. delivery[d].pc = "checking" /\ UNCHANGED <<failures, storedMo, triedMo, errors>>
  BY DEF IsQuarantined
<1>2. /\ Knows(delivery[d]) /\ delivery[d] \in DeliveryStates /\ b \in Batches
      /\ n \in delivery[d].bad /\ n \in Indexes(b) /\ b[n].key \in AllMoKeys
      /\ \A i \in Indexes(b) : b[i].key \in AllMoKeys
  BY <1>1, UnderWay
<1>3. CASE failures[b[n].key] >= QuarantineAttempts
  <2>0. PICK r : r = [delivery[d] EXCEPT !.bad = delivery[d].bad \ {n}]
    OBVIOUS
  <2>1. Continue(d, r)
    BY <1>3, <2>0 DEF IsQuarantined
  <2>2. /\ r \in DeliveryStates
        /\ r.batch = b /\ r.bad = delivery[d].bad \ {n} /\ r.good = delivery[d].good
        /\ r.retry = delivery[d].retry
    BY <1>2, <2>0 DEF DeliveryStates
  <2>3. triedMo[b[n].key] >= QuarantineAttempts
    <3>1. Cardinality(Holding(b[n].key)) \in Nat
      BY <1>2, FS_CardinalityType DEF MoInv, FailuresAreTries
    <3>2. triedMo[b[n].key] < QuarantineAttempts =>
            failures[b[n].key] + Cardinality(Holding(b[n].key)) <= triedMo[b[n].key]
      BY <1>2 DEF MoInv, FailuresAreTries
    <3>3. triedMo[b[n].key] \in Nat /\ failures[b[n].key] \in Nat
      BY <1>0, <1>2
    <3> QED
      BY <1>0, <1>3, <3>1, <3>2, <3>3
  <2>4. Knows(r)'
    <3>1. Knows(r)
      BY <1>2, <2>2, <2>3 DEF Knows
    <3> QED
      BY <1>1, <3>1 DEF Knows
  <2>5. ASSUME NEW k \in AllMoKeys
        PROVE  /\ IsFiniteSet(Holding(k)')
               /\ triedMo'[k] < QuarantineAttempts =>
                    failures'[k] + Cardinality(Holding(k)') <= triedMo'[k]
    <3>1. Holding(k)' \subseteq Holding(k)
      <4>1. CASE \E i \in r.bad : r.batch[i].key = k
        <5>1. d \in Holding(k)
          BY <1>1, <2>2, <4>1 DEF Holding, HoldsKey
        <5> QED
          BY <2>1, <5>1, ContinueHolds
      <4>2. CASE ~\E i \in r.bad : r.batch[i].key = k
        BY <2>1, <4>2, ContinueHolds
      <4> QED
        BY <4>1, <4>2
    <3>2. failures'[k] = failures[k] /\ failures[k] \in Nat
      BY <1>0, <1>1
    <3> QED
      BY <1>1, <3>1, <3>2, FailuresStay
  <2>6. FailuresAreTries'
    BY <2>5 DEF FailuresAreTries
  <2>7. \A k \in AllMoKeys : triedMo[k] <= triedMo'[k]
    BY <1>0, <1>1
  <2> QED
    BY <1>0, <1>1, <2>1, <2>2, <2>4, <2>6, <2>7, ContinueMoves
<1>4. CASE ~(failures[b[n].key] >= QuarantineAttempts)
  <2>0. PICK x : x = [delivery[d] EXCEPT !.pc = "recording"]
    OBVIOUS
  <2>1. delivery' = [delivery EXCEPT ![d] = x] /\ UNCHANGED ackedMo
    BY <1>0, <1>4, <2>0 DEF IsQuarantined
  <2>2. /\ x \in DeliveryStates /\ x.pc = "recording"
        /\ x.batch = b /\ x.bad = delivery[d].bad /\ x.good = delivery[d].good
        /\ x.retry = delivery[d].retry
    BY <1>2, <2>0 DEF DeliveryStates
  <2>3. Knows(x)'
    <3>1. Knows(x)
      BY <1>2, <2>2 DEF Knows
    <3> QED
      BY <1>1, <3>1 DEF Knows
  <2>4. ASSUME NEW k \in AllMoKeys
        PROVE  Holding(k)' = Holding(k)
    <3>1. \A q \in Deliveries : HoldsKey(delivery[q], k)' <=> HoldsKey(delivery[q], k)
      <4>1. delivery'[d] = x /\ \A q \in Deliveries : q # d => delivery'[q] = delivery[q]
        BY <1>0, <2>1
      <4> QED
        BY <1>1, <2>2, <4>1 DEF HoldsKey
    <3> QED
      BY <3>1 DEF Holding
  <2>5. FailuresAreTries'
    BY <1>1, <2>4 DEF MoInv, FailuresAreTries
  <2>6. \A k \in AllMoKeys : triedMo[k] <= triedMo'[k]
    BY <1>0, <1>1
  <2>7. x.bad # {}
    BY <1>2, <2>2
  <2> QED
    BY <1>0, <1>1, <2>1, <2>2, <2>3, <2>5, <2>6, <2>7, DeliveryMoves
<1> QED
  BY <1>3, <1>4

LEMMA RecordKeepsInv ==
  ASSUME MoInv, NEW d \in Deliveries, RecordFailure(d)
  PROVE  MoInv'
<1> DEFINE n == NextBad(d)
           b == delivery[d].batch
<1>k. PICK key : key = b[n].key
  OBVIOUS
<1>0. /\ failures \in [AllMoKeys -> 0 .. QuarantineAttempts] /\ storedMo \subseteq AllMoKeys
      /\ triedMo \in [AllMoKeys -> 0 .. QuarantineAttempts] /\ errors \in 0 .. MaxErrors
      /\ QuarantineAttempts \in Nat /\ delivery \in [Deliveries -> DeliveryStates]
  BY MoAssumption DEF MoInv, MoTypeOK
<1>1. delivery[d].pc = "recording" /\ UNCHANGED <<storedMo, triedMo, errors>>
  BY DEF RecordFailure
<1>2. /\ Knows(delivery[d]) /\ delivery[d] \in DeliveryStates /\ b \in Batches
      /\ n \in delivery[d].bad /\ n \in Indexes(b) /\ key \in AllMoKeys
      /\ delivery[d].bad \subseteq Indexes(b)
      /\ \A i \in Indexes(b) : b[i].key \in AllMoKeys
  BY <1>1, <1>k, UnderWay
<1>3. PICK attempts : attempts = Capped(failures[key] + 1)
  OBVIOUS
<1>4. PICK r : r = [delivery[d] EXCEPT !.bad = delivery[d].bad \ {n},
                       !.retry = delivery[d].retry \/ attempts < QuarantineAttempts]
  OBVIOUS
<1>5. failures' = [failures EXCEPT ![key] = attempts] /\ Continue(d, r)
  BY <1>k, <1>3, <1>4 DEF RecordFailure
<1>6. /\ failures[key] \in Nat /\ attempts \in 0 .. QuarantineAttempts
      /\ attempts <= failures[key] + 1
  BY <1>0, <1>2, <1>3 DEF Capped
<1>7. /\ failures' \in [AllMoKeys -> 0 .. QuarantineAttempts]
      /\ failures'[key] = attempts
      /\ \A k \in AllMoKeys : k # key => failures'[k] = failures[k]
  BY <1>0, <1>2, <1>5, <1>6
<1>8. /\ r.batch = b /\ r.bad = delivery[d].bad \ {n} /\ r.good = delivery[d].good
      /\ r.retry = (delivery[d].retry \/ attempts < QuarantineAttempts)
  BY <1>2, <1>4 DEF DeliveryStates
<1>9. r \in DeliveryStates
  <2>1. (delivery[d].retry \/ attempts < QuarantineAttempts) \in BOOLEAN
    OBVIOUS
  <2> QED
    BY <1>2, <1>4, <2>1 DEF DeliveryStates
<1>10. /\ d \in Holding(key) /\ Cardinality(Holding(key)) \in Nat
       /\ IsFiniteSet(Holding(key))
       /\ triedMo[key] < QuarantineAttempts =>
            failures[key] + Cardinality(Holding(key)) <= triedMo[key]
       /\ triedMo[key] \in Nat
  <2>1. IsFiniteSet(Holding(key)) /\ d \in Holding(key)
    BY <1>1, <1>2, <1>k DEF MoInv, FailuresAreTries, Holding, HoldsKey
  <2> QED
    BY <1>0, <1>2, <2>1, FS_CardinalityType DEF MoInv, FailuresAreTries
<1>11. /\ IsFiniteSet(Holding(key) \ {d})
       /\ Cardinality(Holding(key) \ {d}) = Cardinality(Holding(key)) - 1
       /\ Cardinality(Holding(key) \ {d}) \in Nat
  BY <1>10, FS_RemoveElement, FS_CardinalityType
<1>12. attempts >= QuarantineAttempts => triedMo[key] >= QuarantineAttempts
  BY <1>0, <1>6, <1>10, <1>11
<1>13. Knows(r)'
  <2>1. /\ r.batch \in Batches
        /\ \A i \in r.bad : ~r.batch[i].ok
        /\ \A i, j \in r.bad : r.batch[i].key = r.batch[j].key => i = j
    BY <1>2, <1>8 DEF Knows
  <2>2. ASSUME NEW i \in Indexes(b)
        PROVE  IF b[i].ok
               THEN i \in r.good \/ b[i].key \in storedMo
               ELSE \/ \E j \in r.bad : b[j].key = b[i].key
                    \/ r.retry
                    \/ triedMo[b[i].key] >= QuarantineAttempts
    <3>1. IF b[i].ok
          THEN i \in delivery[d].good \/ b[i].key \in storedMo
          ELSE \/ \E j \in delivery[d].bad : b[j].key = b[i].key
               \/ delivery[d].retry
               \/ triedMo[b[i].key] >= QuarantineAttempts
      BY <1>2 DEF Knows
    <3>2. r.retry \/ triedMo[key] >= QuarantineAttempts
      <4>1. attempts < QuarantineAttempts \/ attempts >= QuarantineAttempts
        BY <1>0, <1>6
      <4>2. attempts < QuarantineAttempts => r.retry
        BY <1>8
      <4> QED
        BY <1>12, <4>1, <4>2
    <3>3. delivery[d].retry => r.retry
      BY <1>8
    <3>4. \A j \in delivery[d].bad : j \in r.bad \/ j = n
      BY <1>8
    <3> QED
      BY <1>8, <1>k, <3>1, <3>2, <3>3, <3>4
  <2>3. Knows(r)
    BY <1>8, <2>1, <2>2 DEF Knows
  <2> QED
    BY <1>1, <2>3 DEF Knows
<1>14. ASSUME NEW k \in AllMoKeys
       PROVE  /\ IsFiniteSet(Holding(k)')
              /\ triedMo'[k] < QuarantineAttempts =>
                   failures'[k] + Cardinality(Holding(k)') <= triedMo'[k]
  <2>1. CASE k = key
    <3>1. ~\E i \in r.bad : r.batch[i].key = key
      BY <1>2, <1>8, <1>k DEF Knows
    <3>2. Holding(key)' \subseteq Holding(key) \ {d}
      BY <1>5, <3>1, ContinueHolds
    <3>3. IsFiniteSet(Holding(key)') /\ Cardinality(Holding(key)') \in Nat
          /\ Cardinality(Holding(key)') <= Cardinality(Holding(key) \ {d})
      BY <1>11, <3>2, FS_Subset, FS_CardinalityType
    <3>4. triedMo'[key] = triedMo[key] /\ failures'[key] <= failures[key] + 1
      BY <1>1, <1>6, <1>7
    <3>5. triedMo'[key] < QuarantineAttempts =>
            failures'[key] + Cardinality(Holding(key)') <= triedMo'[key]
      BY <1>0, <1>6, <1>7, <1>10, <1>11, <3>3, <3>4
    <3> QED
      BY <2>1, <3>3, <3>5
  <2>2. CASE k # key
    <3>1. Holding(k)' \subseteq Holding(k)
      <4>1. CASE \E i \in r.bad : r.batch[i].key = k
        <5>1. d \in Holding(k)
          BY <1>1, <1>8, <4>1 DEF Holding, HoldsKey
        <5> QED
          BY <1>5, <5>1, ContinueHolds
      <4>2. CASE ~\E i \in r.bad : r.batch[i].key = k
        BY <1>5, <4>2, ContinueHolds
      <4> QED
        BY <4>1, <4>2
    <3>2. failures'[k] = failures[k] /\ failures[k] \in Nat
      BY <1>0, <1>7, <2>2
    <3> QED
      BY <1>1, <3>1, <3>2, FailuresStay
  <2> QED
    BY <2>1, <2>2
<1>15. FailuresAreTries'
  BY <1>14 DEF FailuresAreTries
<1>16. \A k \in AllMoKeys : triedMo[k] <= triedMo'[k]
  BY <1>0, <1>1
<1> QED
  BY <1>0, <1>1, <1>5, <1>7, <1>9, <1>13, <1>15, <1>16, ContinueMoves

LEMMA StoreKeepsInv ==
  ASSUME MoInv, NEW d \in Deliveries, StorePreparedItem(d)
  PROVE  MoInv'
<1> DEFINE b == delivery[d].batch
<1>0. /\ failures \in [AllMoKeys -> 0 .. QuarantineAttempts] /\ storedMo \subseteq AllMoKeys
      /\ triedMo \in [AllMoKeys -> 0 .. QuarantineAttempts] /\ errors \in 0 .. MaxErrors
      /\ QuarantineAttempts \in Nat /\ delivery \in [Deliveries -> DeliveryStates]
  BY MoAssumption DEF MoInv, MoTypeOK
<1>1. delivery[d].pc = "storing" /\ UNCHANGED <<triedMo, errors>>
  BY DEF StorePreparedItem
<1>2. /\ Knows(delivery[d]) /\ delivery[d] \in DeliveryStates /\ b \in Batches
      /\ \A i \in Indexes(b) : b[i].key \in AllMoKeys
  BY <1>1, UnderWay
<1>3. PICK i \in delivery[d].good :
        /\ storedMo' = storedMo \union {b[i].key}
        /\ failures' = [failures EXCEPT ![b[i].key] = 0]
        /\ Continue(d, [delivery[d] EXCEPT !.good = delivery[d].good \ {i}])
  BY DEF StorePreparedItem
<1>4. PICK r : r = [delivery[d] EXCEPT !.good = delivery[d].good \ {i}]
  OBVIOUS
<1>5. Continue(d, r)
  BY <1>3, <1>4
<1>6. /\ r \in DeliveryStates /\ r.batch = b /\ r.bad = delivery[d].bad
      /\ r.good = delivery[d].good \ {i} /\ r.retry = delivery[d].retry
  BY <1>2, <1>4 DEF DeliveryStates
<1>7. b[i].key \in AllMoKeys
  <2>1. i \in Indexes(b)
    BY <1>2, <1>3 DEF DeliveryStates
  <2> QED
    BY <1>2, <2>1
<1>8. /\ storedMo' \subseteq AllMoKeys /\ storedMo \subseteq storedMo'
      /\ failures' \in [AllMoKeys -> 0 .. QuarantineAttempts]
      /\ \A k \in AllMoKeys : failures'[k] \in Nat /\ failures'[k] <= failures[k]
  BY <1>0, <1>3, <1>7
<1>9. Knows(r)'
  <2>1. /\ r.batch \in Batches
        /\ \A j \in r.bad : ~r.batch[j].ok
        /\ \A j, l \in r.bad : r.batch[j].key = r.batch[l].key => j = l
    BY <1>2, <1>6 DEF Knows
  <2>2. ASSUME NEW j \in Indexes(b)
        PROVE  IF b[j].ok
               THEN j \in r.good \/ b[j].key \in storedMo'
               ELSE \/ \E l \in r.bad : b[l].key = b[j].key
                    \/ r.retry
                    \/ triedMo'[b[j].key] >= QuarantineAttempts
    <3>1. IF b[j].ok
          THEN j \in delivery[d].good \/ b[j].key \in storedMo
          ELSE \/ \E l \in delivery[d].bad : b[l].key = b[j].key
               \/ delivery[d].retry
               \/ triedMo[b[j].key] >= QuarantineAttempts
      BY <1>2 DEF Knows
    <3>2. j \in delivery[d].good => j \in r.good \/ b[j].key \in storedMo'
      BY <1>3, <1>6
    <3> QED
      BY <1>1, <1>6, <1>8, <3>1, <3>2
  <2> QED
    BY <1>6, <2>1, <2>2 DEF Knows
<1>10. ASSUME NEW k \in AllMoKeys
       PROVE  /\ IsFiniteSet(Holding(k)')
              /\ triedMo'[k] < QuarantineAttempts =>
                   failures'[k] + Cardinality(Holding(k)') <= triedMo'[k]
  <2>1. Holding(k)' \subseteq Holding(k)
    <3>1. CASE \E j \in r.bad : r.batch[j].key = k
      <4>1. d \in Holding(k)
        BY <1>1, <1>6, <3>1 DEF Holding, HoldsKey
      <4> QED
        BY <1>5, <4>1, ContinueHolds
    <3>2. CASE ~\E j \in r.bad : r.batch[j].key = k
      BY <1>5, <3>2, ContinueHolds
    <3> QED
      BY <3>1, <3>2
  <2> QED
    BY <1>1, <1>8, <2>1, FailuresStay
<1>11. FailuresAreTries'
  BY <1>10 DEF FailuresAreTries
<1>12. \A k \in AllMoKeys : triedMo[k] <= triedMo'[k]
  BY <1>0, <1>1
<1> QED
  BY <1>0, <1>1, <1>5, <1>6, <1>8, <1>9, <1>11, <1>12, ContinueMoves

LEMMA FailKeepsInv ==
  ASSUME MoInv, NEW d \in Deliveries, DeliveryFails(d)
  PROVE  MoInv'
<1>0. /\ failures \in [AllMoKeys -> 0 .. QuarantineAttempts] /\ storedMo \subseteq AllMoKeys
      /\ triedMo \in [AllMoKeys -> 0 .. QuarantineAttempts] /\ errors' \in 0 .. MaxErrors
      /\ QuarantineAttempts \in Nat /\ delivery \in [Deliveries -> DeliveryStates]
  BY MoAssumption DEF MoInv, MoTypeOK, DeliveryFails
<1>1. /\ delivery' = [delivery EXCEPT ![d] = NoDelivery]
      /\ UNCHANGED <<failures, storedMo, ackedMo, triedMo>>
  BY DEF DeliveryFails
<1>2. NoDelivery \in DeliveryStates /\ NoDelivery.pc = "idle"
  BY DEF NoDelivery, DeliveryStates, Indexes
<1>3. ASSUME NEW k \in AllMoKeys
      PROVE  Holding(k)' \subseteq Holding(k)
  BY <1>0, <1>1, <1>2 DEF Holding, HoldsKey
<1>4. FailuresAreTries'
  <2>1. ASSUME NEW k \in AllMoKeys
        PROVE  /\ IsFiniteSet(Holding(k)')
               /\ triedMo'[k] < QuarantineAttempts =>
                    failures'[k] + Cardinality(Holding(k)') <= triedMo'[k]
    <3>1. failures'[k] \in Nat /\ failures'[k] <= failures[k]
      BY <1>0, <1>1
    <3> QED
      BY <1>1, <1>3, <3>1, FailuresStay
  <2> QED
    BY <2>1 DEF FailuresAreTries
<1>5. \A k \in AllMoKeys : triedMo[k] <= triedMo'[k]
  BY <1>0, <1>1
<1> QED
  BY <1>0, <1>1, <1>2, <1>4, <1>5, DeliveryMoves

LEMMA StepMoInv == MoInv /\ [MoNext]_moVars => MoInv'
<1> SUFFICES ASSUME MoInv, [MoNext]_moVars PROVE MoInv'
  OBVIOUS
<1>1. CASE MoNext
  <2> SUFFICES ASSUME NEW d \in Deliveries,
                      \/ \E b \in Batches : DeliverBatch(d, b)
                      \/ DeliveryStep(d) \/ DeliveryFails(d)
               PROVE  MoInv'
    BY <1>1 DEF MoNext
  <2>1. CASE \E b \in Batches : DeliverBatch(d, b)
    BY <2>1, DeliverKeepsInv
  <2>2. CASE IsQuarantined(d)
    BY <2>2, QuarantineKeepsInv
  <2>3. CASE RecordFailure(d)
    BY <2>3, RecordKeepsInv
  <2>4. CASE StorePreparedItem(d)
    BY <2>4, StoreKeepsInv
  <2>5. CASE DeliveryFails(d)
    BY <2>5, FailKeepsInv
  <2> QED
    BY <2>1, <2>2, <2>3, <2>4, <2>5 DEF DeliveryStep
<1>2. CASE UNCHANGED moVars
  BY <1>2 DEF moVars, MoInv, MoTypeOK, FailuresAreTries, Holding, HoldsKey, DeliveriesKnow,
              Knows, AcknowledgedMessagesAreKept
<1> QED
  BY <1>1, <1>2

(* The webhook's state is of its type, what a delivery has left to do is   *)
(* known, and no failure is counted that no delivery carried.              *)
THEOREM MoInvariant == MoSpec => []MoInv
<1>1. MoInit => MoInv
  BY InitMoInv
<1>2. MoInv /\ [MoNext]_moVars => MoInv'
  BY StepMoInv
<1> QED
  BY <1>1, <1>2, PTL DEF MoSpec

(* LGU+ never sends an acknowledged batch again: each of its messages is   *)
(* stored, or was delivered as often as the code gives it a chance, for    *)
(* any number of deliveries that count failures in parallel.               *)
THEOREM AcknowledgedAreKept == MoSpec => []AcknowledgedMessagesAreKept
<1>1. MoInv => AcknowledgedMessagesAreKept
  BY DEF MoInv
<1> QED
  BY <1>1, MoInvariant, PTL

-----------------------------------------------------------------------------
(***************************************************************************)
(* Downloads.                                                              *)
(***************************************************************************)
MayBeGone(a) == a \in Sized /\ a \in overrun

(* A run is at the row it holds, unless the lease ran out under it.        *)
HoldsItsRow(r) == run[r].row # 0 => Holds(r, run[r].row) \/ run[r].row \in overrun
RunsHoldTheirRows == \A r \in Runs : HoldsItsRow(r)

(* A run that works is at a row.                                           *)
RunsAreSomewhere ==
  \A r \in Runs : run[r].pc \in {"idle", "claim"} <=> run[r].row = 0

(* Only objects of rows with a known size are removed.                     *)
SizedAreRemoved ==
  \A r \in Runs : run[r].pc \in {"delete", "discard"} => run[r].row \in Sized

(* Who is about to complete a row has seen or put its object.              *)
SuccessHasAnObject ==
  \A r \in Runs :
    run[r].pc = "succeed" => MayBeGone(run[r].row) \/ object[run[r].row] # "none"

DownloadInv ==
  /\ DownloadTypeOK
  /\ SettledOnceAndAnnounced
  /\ RunsHoldTheirRows
  /\ RunsAreSomewhere
  /\ SizedAreRemoved
  /\ SuccessHasAnObject
  /\ ServedObjectsExist

-----------------------------------------------------------------------------
LEMMA InitDownloadInv == DownloadInit => DownloadInv
<1> SUFFICES ASSUME DownloadInit PROVE DownloadInv
  OBVIOUS
<1> USE DownloadAssumption DEF DownloadInit, NoRun
<1>1. DownloadTypeOK
  BY DEF DownloadTypeOK, Rows, RunStates
<1>2. SettledOnceAndAnnounced /\ ServedObjectsExist
  BY DEF SettledOnceAndAnnounced, ServedObjectsExist
<1>3. RunsHoldTheirRows /\ RunsAreSomewhere /\ SizedAreRemoved /\ SuccessHasAnObject
  BY DEF RunsHoldTheirRows, HoldsItsRow, RunsAreSomewhere, SizedAreRemoved, SuccessHasAnObject
<1> QED
  BY <1>1, <1>2, <1>3 DEF DownloadInv

(* What is true of the runs and the rows in a state of the invariant.      *)
LEMMA Typed ==
  ASSUME DownloadInv
  PROVE  /\ attachment \in [Attachments -> Rows]
         /\ located \subseteq Attachments
         /\ object \in [Attachments -> {"none", "whole", "wrong"}]
         /\ aged \subseteq Attachments /\ overrun \subseteq Attachments
         /\ run \in [Runs -> RunStates]
         /\ announced \in [Attachments -> Nat]
         /\ 0 \notin Attachments
         /\ \A r \in Runs : run[r].pc \notin {"idle", "claim"} => run[r].row \in Attachments
BY DownloadAssumption DEF DownloadInv, DownloadTypeOK, RunsAreSomewhere, RunStates

(* A run moves on: to another step at its row, or away from it.            *)
LEMMA GoToMoves ==
  ASSUME DownloadInv, NEW r \in Runs, NEW pc, GoTo(r, pc),
         pc \in {"claim", "head", "delete", "fetch", "wrong", "whole", "discard", "succeed",
                 "fail"}
  PROVE  /\ run' \in [Runs -> RunStates]
         /\ run'[r].pc = pc
         /\ run'[r].row = IF pc = "claim" THEN 0 ELSE run[r].row
         /\ \A q \in Runs : q # r => run'[q] = run[q]
<1>1. PICK x : x = [[run[r] EXCEPT !.pc = pc]
                       EXCEPT !.row = IF pc = "claim" THEN 0 ELSE run[r].row]
  OBVIOUS
<1>2. x \in RunStates /\ x.pc = pc /\ x.row = IF pc = "claim" THEN 0 ELSE run[r].row
  <2>1. PICK y : y = [run[r] EXCEPT !.pc = pc]
    OBVIOUS
  <2>2. y \in RunStates /\ y.pc = pc
    BY <2>1, Typed DEF RunStates
  <2>3. PICK row : row = IF pc = "claim" THEN 0 ELSE run[r].row
    OBVIOUS
  <2>4. row \in Attachments \union {0}
    BY <2>3, Typed DEF RunStates
  <2>5. x = [y EXCEPT !.row = row]
    BY <1>1, <2>1, <2>3
  <2> QED
    BY <2>2, <2>3, <2>4, <2>5 DEF RunStates
<1>3. run' = [run EXCEPT ![r] = x]
  BY <1>1, Typed DEF GoTo
<1> QED
  BY <1>2, <1>3, Typed

(* One run moves and perhaps puts or removes the object of its row; what   *)
(* is in the database stays.                                               *)
LEMMA RunMoves ==
  ASSUME DownloadInv, NEW r \in Runs, run[r].row \in Attachments,
         NEW pc, GoTo(r, pc), run[r].pc \notin {"idle", "claim"},
         pc \in {"claim", "head", "delete", "fetch", "wrong", "whole", "discard", "succeed",
                 "fail"},
         UNCHANGED <<attachment, located, aged, overrun, announced>>,
         object' \in [Attachments -> {"none", "whole", "wrong"}],
         \A a \in Attachments :
           /\ a # run[r].row \/ run[r].row \notin Sized
           /\ object[a] # "none"
           => object'[a] # "none",
         pc \in {"delete", "discard"} => run[r].row \in Sized,
         pc = "succeed" => MayBeGone(run[r].row) \/ object'[run[r].row] # "none"
  PROVE  DownloadInv'
<1>t. DownloadTypeOK'
  BY Typed, GoToMoves DEF DownloadTypeOK
<1>1. SettledOnceAndAnnounced'
  BY DEF DownloadInv, SettledOnceAndAnnounced
<1>2. RunsHoldTheirRows'
  BY GoToMoves DEF DownloadInv, RunsHoldTheirRows, HoldsItsRow, Holds
<1>3. RunsAreSomewhere'
  BY GoToMoves DEF DownloadInv, RunsAreSomewhere
<1>4. SizedAreRemoved'
  BY GoToMoves DEF DownloadInv, SizedAreRemoved
<1>5. ASSUME NEW q \in Runs, run'[q].pc = "succeed"
      PROVE  MayBeGone(run'[q].row) \/ object'[run'[q].row] # "none"
  <2>1. CASE q = r
    BY <1>5, <2>1, GoToMoves
  <2>2. CASE q # r
    <3>1. /\ run'[q] = run[q] /\ run[q].pc = "succeed" /\ run[q].row \in Attachments
          /\ MayBeGone(run[q].row) \/ object[run[q].row] # "none"
      BY <1>5, <2>2, GoToMoves, Typed DEF DownloadInv, SuccessHasAnObject
    <3>2. CASE run[q].row = run[r].row
      <4>1. run[r].row \in overrun
        BY <2>2, <3>1, <3>2, DownloadAssumption
        DEF DownloadInv, RunsHoldTheirRows, HoldsItsRow, Holds, DownloadTypeOK
      <4> QED
        BY <3>1, <3>2, <4>1 DEF MayBeGone
    <3>3. CASE run[q].row # run[r].row
      BY <3>1, <3>3
    <3> QED
      BY <3>2, <3>3
  <2> QED
    BY <2>1, <2>2
<1>6. ASSUME NEW a \in Attachments, attachment'[a].status = "completed",
             ~(a \in Sized /\ a \in overrun')
      PROVE  object'[a] # "none"
  <2>1. object[a] # "none"
    BY <1>6 DEF DownloadInv, ServedObjectsExist
  <2>2. a # run[r].row \/ run[r].row \notin Sized
    BY <1>6, Typed DEF DownloadInv, RunsHoldTheirRows, HoldsItsRow, Holds
  <2> QED
    BY <2>1, <2>2
<1> QED
  BY <1>t, <1>1, <1>2, <1>3, <1>4, <1>5, <1>6
  DEF DownloadInv, SuccessHasAnObject, ServedObjectsExist, MayBeGone

(* Rows change hands while every run stays where it is, or leaves its row  *)
(* or takes one that nobody was at.                                        *)
LEMMA Claims ==
  ASSUME DownloadInv, NEW r \in Runs, NEW a \in Attachments, a \in Claimable,
         run[r].pc = "claim", NEW pc \in {"head", "fail"}, NEW left \in 0 .. MaxPerRun,
         attachment' = [attachment EXCEPT ![a].lease = r],
         run' = [run EXCEPT ![r] = [pc |-> pc, row |-> a, left |-> left]],
         UNCHANGED <<located, object, aged, overrun, announced>>
  PROVE  DownloadInv'
<1>1. /\ attachment' \in [Attachments -> Rows]
      /\ attachment[a].status = "pending" /\ attachment[a].lease = Nobody
      /\ attachment'[a].status = "pending" /\ attachment'[a].lease = r
      /\ \A b \in Attachments : b # a => attachment'[b] = attachment[b]
  BY Typed DEF Rows, Claimable
<1>2. /\ run' \in [Runs -> RunStates]
      /\ run'[r].pc = pc /\ run'[r].row = a
      /\ \A q \in Runs : q # r => run'[q] = run[q]
  BY Typed DEF RunStates
<1>t. DownloadTypeOK'
  BY <1>1, <1>2, Typed DEF DownloadTypeOK
<1>3. SettledOnceAndAnnounced'
  BY <1>1 DEF DownloadInv, SettledOnceAndAnnounced
<1>4. ASSUME NEW q \in Runs, run'[q].row # 0
      PROVE  HoldsItsRow(q)'
  <2>1. CASE q = r
    BY <1>1, <1>2, <2>1 DEF Holds, HoldsItsRow
  <2>2. CASE q # r
    <3>1. run'[q] = run[q] /\ (Holds(q, run[q].row) \/ run[q].row \in overrun)
      BY <1>2, <1>4, <2>2 DEF DownloadInv, RunsHoldTheirRows, HoldsItsRow
    <3>2. CASE Holds(q, run[q].row)
      <4>1. run[q].row # a
        BY <1>1, <3>2, DownloadAssumption DEF Holds
      <4>2. run[q].row \in Attachments
        BY <1>4, <3>1, Typed DEF RunStates
      <4> QED
        BY <1>1, <3>1, <3>2, <4>1, <4>2 DEF Holds, HoldsItsRow
    <3> QED
      BY <3>1, <3>2 DEF HoldsItsRow
  <2> QED
    BY <2>1, <2>2
<1>5. RunsAreSomewhere' /\ SizedAreRemoved'
  BY <1>2, Typed DEF DownloadInv, RunsAreSomewhere, SizedAreRemoved
<1>6. SuccessHasAnObject'
  BY <1>2 DEF DownloadInv, SuccessHasAnObject, MayBeGone
<1>7. ServedObjectsExist'
  BY <1>1 DEF DownloadInv, ServedObjectsExist
<1> QED
  BY <1>t, <1>3, <1>4, <1>5, <1>6, <1>7 DEF DownloadInv, RunsHoldTheirRows, HoldsItsRow

(* A run without a row.                                                    *)
LEMMA RunRests ==
  ASSUME DownloadInv, NEW r \in Runs, NEW left \in 0 .. MaxPerRun,
         NEW pc \in {"idle", "claim"},
         run' = [run EXCEPT ![r] = [pc |-> pc, row |-> 0, left |-> left]],
         UNCHANGED <<attachment, located, object, aged, overrun, announced>>
  PROVE  DownloadInv'
<1>1. /\ run' \in [Runs -> RunStates]
      /\ run'[r].pc = pc /\ run'[r].row = 0
      /\ \A q \in Runs : q # r => run'[q] = run[q]
  BY Typed DEF RunStates
<1>2. DownloadTypeOK' /\ SettledOnceAndAnnounced' /\ ServedObjectsExist'
  BY <1>1, Typed DEF DownloadInv, DownloadTypeOK, SettledOnceAndAnnounced, ServedObjectsExist
<1>3. RunsHoldTheirRows' /\ RunsAreSomewhere'
  BY <1>1 DEF DownloadInv, RunsHoldTheirRows, HoldsItsRow, RunsAreSomewhere, Holds
<1>4. SizedAreRemoved' /\ SuccessHasAnObject'
  BY <1>1 DEF DownloadInv, SizedAreRemoved, SuccessHasAnObject, MayBeGone
<1> QED
  BY <1>2, <1>3, <1>4 DEF DownloadInv

(* The batch that settles a row: without the lease it changes nothing, and *)
(* with it nobody else is at the row, unless the lease once ran out.       *)
LEMMA Settles ==
  ASSUME DownloadInv, NEW r \in Runs, NEW pc, NEW status,
         <<pc, status>> \in {<<"succeed", "completed">>, <<"fail", "failed">>},
         Settle(r, pc, status)
  PROVE  DownloadInv'
<1> DEFINE a == run[r].row
<1>0. a \in Attachments /\ run[r].pc = pc /\ pc \in {"succeed", "fail"}
  BY Typed DEF Settle
<1>1. CASE ~Holds(r, a)
  <2>1. UNCHANGED <<attachment, located, announced, object, aged, overrun>>
    BY <1>1 DEF Settle
  <2>2. GoTo(r, "claim")
    BY DEF Settle
  <2>3. run[r].pc \notin {"idle", "claim"}
    BY <1>0
  <2> QED
    BY <1>0, <2>1, <2>2, <2>3, Typed, RunMoves
<1>2. CASE Holds(r, a)
  <2>0. /\ GoTo(r, "claim")
        /\ attachment' = [attachment EXCEPT ![a] = Settled(status)]
        /\ announced' = [announced EXCEPT ![a] = @ + 1]
        /\ UNCHANGED <<located, object, aged, overrun>>
    BY <1>2 DEF Settle
  <2>1. /\ attachment' \in [Attachments -> Rows]
        /\ attachment'[a].status = status /\ attachment'[a].lease = Nobody
        /\ \A b \in Attachments : b # a => attachment'[b] = attachment[b]
    BY <1>0, <2>0, Typed DEF Rows, Settled
  <2>2. /\ run' \in [Runs -> RunStates]
        /\ run'[r].pc = "claim" /\ run'[r].row = 0
        /\ \A q \in Runs : q # r => run'[q] = run[q]
    BY <2>0, GoToMoves
  <2>3. /\ announced' \in [Attachments -> Nat]
        /\ announced[a] = 0 /\ announced'[a] = 1
        /\ \A b \in Attachments : b # a => announced'[b] = announced[b]
    BY <1>0, <1>2, <2>0, Typed DEF DownloadInv, SettledOnceAndAnnounced, Holds
  <2>t. DownloadTypeOK'
    BY <2>0, <2>1, <2>2, <2>3, Typed DEF DownloadTypeOK
  <2>4. SettledOnceAndAnnounced'
    BY <2>1, <2>3 DEF DownloadInv, SettledOnceAndAnnounced
  <2>5. ASSUME NEW q \in Runs, run'[q].row # 0
        PROVE  HoldsItsRow(q)'
    <3>1. q # r /\ run'[q] = run[q] /\ run[q].row \in Attachments
      BY <2>2, <2>5, Typed DEF RunStates
    <3>2. CASE run[q].row = a
      <4>1. ~Holds(q, a)
        BY <1>2, <3>1 DEF Holds
      <4> QED
        BY <2>0, <2>5, <3>1, <3>2, <4>1 DEF DownloadInv, RunsHoldTheirRows, HoldsItsRow
    <3>3. CASE run[q].row # a
      BY <2>0, <2>1, <2>5, <3>1, <3>3 DEF DownloadInv, RunsHoldTheirRows, HoldsItsRow, Holds
    <3> QED
      BY <3>2, <3>3
  <2>6. RunsAreSomewhere' /\ SizedAreRemoved'
    BY <2>2 DEF DownloadInv, RunsAreSomewhere, SizedAreRemoved
  <2>7. SuccessHasAnObject'
    BY <2>0, <2>2 DEF DownloadInv, SuccessHasAnObject, MayBeGone
  <2>8. ServedObjectsExist'
    BY <1>0, <2>0, <2>1 DEF DownloadInv, ServedObjectsExist, SuccessHasAnObject, MayBeGone
  <2> QED
    BY <2>t, <2>4, <2>5, <2>6, <2>7, <2>8 DEF DownloadInv, RunsHoldTheirRows, HoldsItsRow
<1> QED
  BY <1>1, <1>2

(* A lease that runs out leaves whoever is at the row an overrun.          *)
LEMMA LeaseRunsOut ==
  ASSUME DownloadInv, NEW a \in Attachments, LeaseExpires(a)
  PROVE  DownloadInv'
<1>1. /\ attachment' \in [Attachments -> Rows]
      /\ attachment'[a].status = attachment[a].status
      /\ \A b \in Attachments : b # a => attachment'[b] = attachment[b]
  BY Typed DEF LeaseExpires, Rows
<1>2. UNCHANGED <<located, object, aged, run, announced>>
  BY DEF LeaseExpires
<1>3. /\ overrun \subseteq overrun' /\ overrun' \subseteq Attachments
      /\ \A r \in Runs : run[r].row = a => a \in overrun'
  BY Typed DEF LeaseExpires
<1>t. DownloadTypeOK'
  BY <1>1, <1>2, <1>3, Typed DEF DownloadTypeOK
<1>4. SettledOnceAndAnnounced' /\ ServedObjectsExist'
  BY <1>1, <1>2, <1>3 DEF DownloadInv, SettledOnceAndAnnounced, ServedObjectsExist
<1>5. ASSUME NEW r \in Runs, run'[r].row # 0
      PROVE  HoldsItsRow(r)'
  <2>1. run'[r].row = run[r].row /\ run[r].row \in Attachments
    BY <1>2, <1>5, Typed DEF RunStates
  <2> QED
    BY <1>1, <1>2, <1>3, <1>5, <2>1 DEF DownloadInv, RunsHoldTheirRows, HoldsItsRow, Holds
<1>6. RunsAreSomewhere' /\ SizedAreRemoved'
  BY <1>2 DEF DownloadInv, RunsAreSomewhere, SizedAreRemoved
<1>7. SuccessHasAnObject'
  BY <1>2, <1>3 DEF DownloadInv, SuccessHasAnObject, MayBeGone
<1> QED
  BY <1>t, <1>4, <1>5, <1>6, <1>7 DEF DownloadInv, RunsHoldTheirRows, HoldsItsRow

LEMMA StepDownloadInv == DownloadInv /\ [DownloadNext]_downloadVars => DownloadInv'
<1> SUFFICES ASSUME DownloadInv, [DownloadNext]_downloadVars PROVE DownloadInv'
  OBVIOUS
<1> USE DownloadAssumption
<1>1. ASSUME NEW r \in Runs, StartRun(r) PROVE DownloadInv'
  <2>1. MaxPerRun \in 0 .. MaxPerRun
    OBVIOUS
  <2> QED
    BY <1>1, <2>1, RunRests DEF StartRun
<1>2. ASSUME NEW r \in Runs, ClaimNextAttachment(r) PROVE DownloadInv'
  <2>1. CASE RunIsDone(r)
    <3>1. 0 \in 0 .. MaxPerRun
      OBVIOUS
    <3> QED
      BY <1>2, <2>1, <3>1, RunRests DEF ClaimNextAttachment, NoRun
  <2>2. CASE ~RunIsDone(r)
    <3>1. PICK a \in Claimable :
            /\ attachment' = [attachment EXCEPT ![a].lease = r]
            /\ run' = [run EXCEPT ![r] = [pc |-> IF a \in aged THEN "fail" ELSE "head",
                                          row |-> a, left |-> run[r].left - 1]]
      BY <1>2, <2>2 DEF ClaimNextAttachment
    <3>2. a \in Attachments
      BY Typed DEF Claimable
    <3>3. run[r].left - 1 \in 0 .. MaxPerRun
      BY <2>2, Typed DEF RunIsDone, RunStates
    <3> DEFINE pc == IF a \in aged THEN "fail" ELSE "head"
    <3>4. pc \in {"head", "fail"} /\ run' = [run EXCEPT ![r] =
                                            [pc |-> pc, row |-> a, left |-> run[r].left - 1]]
      BY <3>1
    <3> HIDE DEF pc
    <3> QED
      BY <1>2, <3>1, <3>2, <3>3, <3>4, Claims DEF ClaimNextAttachment
  <2> QED
    BY <2>1, <2>2
<1>3. ASSUME NEW r \in Runs, FindObject(r) PROVE DownloadInv'
  <2>1. run[r].pc = "head" /\ run[r].row \in Attachments
    BY <1>3, Typed DEF FindObject
  <2>2. PICK pc \in {"fail", "fetch", "delete", "succeed"} :
          /\ GoTo(r, pc)
          /\ pc = "delete" => run[r].row \in Sized
          /\ pc = "succeed" => object[run[r].row] # "none"
    BY <1>3, <2>1, Typed DEF FindObject, Validated
  <2>3. UNCHANGED <<attachment, located, object, aged, overrun, announced>>
    BY <1>3 DEF FindObject
  <2> QED
    BY <2>1, <2>2, <2>3, Typed, RunMoves
<1>4. ASSUME NEW r \in Runs, DeleteObject(r) PROVE DownloadInv'
  <2>1. run[r].pc \in {"delete", "discard"} /\ run[r].row \in Sized
        /\ run[r].row \in Attachments
    BY <1>4, Typed DEF DeleteObject, DownloadInv, SizedAreRemoved
  <2>2. PICK pc \in {"fail", "fetch", "claim"} : GoTo(r, pc)
    BY <1>4 DEF DeleteObject, Validated
  <2>3. /\ UNCHANGED <<attachment, located, aged, overrun, announced>>
        /\ object' \in [Attachments -> {"none", "whole", "wrong"}]
        /\ \A a \in Attachments : a # run[r].row => object'[a] = object[a]
    BY <1>4, Typed DEF DeleteObject
  <2> QED
    BY <2>1, <2>2, <2>3, RunMoves
<1>5. ASSUME NEW r \in Runs, FetchAttachment(r) PROVE DownloadInv'
  <2>1. run[r].pc = "fetch" /\ run[r].row \in Attachments
    BY <1>5, Typed DEF FetchAttachment
  <2>2. PICK pc \in {"whole", "wrong", "fail", "claim"} : GoTo(r, pc)
    BY <1>5 DEF FetchAttachment
  <2>3. UNCHANGED <<attachment, located, object, aged, overrun, announced>>
    BY <1>5 DEF FetchAttachment
  <2> QED
    BY <2>1, <2>2, <2>3, Typed, RunMoves
<1>6. ASSUME NEW r \in Runs, PutObject(r) PROVE DownloadInv'
  <2>1. run[r].pc \in {"whole", "wrong"} /\ run[r].row \in Attachments
    BY <1>6, Typed DEF PutObject
  <2>2. PICK pc \in {"discard", "succeed"} :
          GoTo(r, pc) /\ (pc = "discard" => run[r].row \in Sized)
    BY <1>6 DEF PutObject
  <2>3. /\ UNCHANGED <<attachment, located, aged, overrun, announced>>
        /\ object' \in [Attachments -> {"none", "whole", "wrong"}]
        /\ object'[run[r].row] # "none"
        /\ \A a \in Attachments : a # run[r].row => object'[a] = object[a]
    BY <1>6, <2>1, Typed DEF PutObject
  <2>4. \A a \in Attachments : object[a] # "none" => object'[a] # "none"
    BY <2>3
  <2> QED
    BY <2>1, <2>2, <2>3, <2>4, RunMoves
<1>7. ASSUME NEW r \in Runs, FinalizeSuccess(r) \/ FinalizeFailure(r) PROVE DownloadInv'
  BY <1>7, Settles DEF FinalizeSuccess, FinalizeFailure
<1>8. ASSUME NEW r \in Runs, DownloadThrows(r) PROVE DownloadInv'
  <2>1. run[r].pc \notin {"idle", "claim"} /\ run[r].row \in Attachments
    BY <1>8, Typed DEF DownloadThrows
  <2>2. GoTo(r, "claim") /\ UNCHANGED <<attachment, located, object, aged, overrun, announced>>
    BY <1>8 DEF DownloadThrows
  <2> QED
    BY <2>1, <2>2, Typed, RunMoves
<1>9. ASSUME NEW r \in Runs, RunDies(r) PROVE DownloadInv'
  <2>1. 0 \in 0 .. MaxPerRun
    OBVIOUS
  <2> QED
    BY <1>9, <2>1, RunRests DEF RunDies, NoRun
<1>10. ASSUME NEW a \in Attachments, WindowPasses(a) PROVE DownloadInv'
  <2>1. /\ aged' \subseteq Attachments
        /\ UNCHANGED <<attachment, located, object, run, overrun, announced>>
    BY <1>10, Typed DEF WindowPasses
  <2> QED
    BY <2>1 DEF DownloadInv, DownloadTypeOK, SettledOnceAndAnnounced, RunsHoldTheirRows, HoldsItsRow, Holds,
       RunsAreSomewhere, SizedAreRemoved, SuccessHasAnObject, MayBeGone, ServedObjectsExist
<1>11. ASSUME NEW a \in Attachments, RedeliverUrl(a) PROVE DownloadInv'
  <2>1. /\ located' \subseteq Attachments
        /\ UNCHANGED <<attachment, object, aged, run, overrun, announced>>
    BY <1>11, Typed DEF RedeliverUrl
  <2> QED
    BY <2>1 DEF DownloadInv, DownloadTypeOK, SettledOnceAndAnnounced, RunsHoldTheirRows,
       HoldsItsRow, Holds, RunsAreSomewhere, SizedAreRemoved, SuccessHasAnObject, MayBeGone,
       ServedObjectsExist
<1>12. CASE UNCHANGED downloadVars
  BY <1>12 DEF downloadVars, DownloadInv, DownloadTypeOK, SettledOnceAndAnnounced,
     RunsHoldTheirRows, HoldsItsRow, Holds, RunsAreSomewhere, SizedAreRemoved, SuccessHasAnObject, MayBeGone,
     ServedObjectsExist
<1> QED
  BY <1>1, <1>2, <1>3, <1>4, <1>5, <1>6, <1>7, <1>8, <1>9, <1>10, <1>11, <1>12, LeaseRunsOut
  DEF DownloadNext, RunStep

-----------------------------------------------------------------------------
THEOREM DownloadInvariant == DownloadSpec => []DownloadInv
<1> QED
  BY InitDownloadInv, StepDownloadInv, PTL DEF DownloadSpec

(* A row is settled once and announced with it (finalizeSuccess and        *)
(* finalizeFailure, both guarded by the lease).                            *)
THEOREM RowsSettleOnce == DownloadSpec => []SettledOnceAndAnnounced
<1>1. DownloadInv => SettledOnceAndAnnounced
  BY DEF DownloadInv
<1> QED
  BY <1>1, DownloadInvariant, PTL

(* A row that is shown as completed has its object, however runs cross,    *)
(* unless its size is known and a run outlived its lease on it.            *)
THEOREM CompletedRowsHaveObjects == DownloadSpec => []ServedObjectsExist
<1>1. DownloadInv => ServedObjectsExist
  BY DEF DownloadInv
<1> QED
  BY <1>1, DownloadInvariant, PTL

-----------------------------------------------------------------------------
(* The variables of both parts keep their types, whichever part runs.      *)
THEOREM IntakeTypeCorrect == IntakeSpec => []IntakeTypeOK
<1>1. IntakeInit => MoInv /\ DownloadInv
  BY InitMoInv, InitDownloadInv DEF IntakeInit
<1>2. MoInv /\ DownloadInv /\ [IntakeNext]_IntakeVars => (MoInv /\ DownloadInv)'
  <2>1. [IntakeNext]_IntakeVars => [MoNext]_moVars /\ [DownloadNext]_downloadVars
    BY DEF IntakeNext, IntakeVars
  <2> QED
    BY <2>1, StepMoInv, StepDownloadInv
<1>3. MoInv /\ DownloadInv => IntakeTypeOK
  BY DEF MoInv, DownloadInv, IntakeTypeOK
<1> QED
  BY <1>1, <1>2, <1>3, PTL DEF IntakeSpec
=============================================================================
