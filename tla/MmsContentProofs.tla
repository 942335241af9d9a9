--------------------------- MODULE MmsContentProofs ---------------------------
(***************************************************************************)
(* Proofs about MmsContent for every set of deliveries and bodies.  IInv   *)
(* says what a delivery knows, over an await, of the rows it has inserted, *)
(* replaced or found.                                                      *)
(***************************************************************************)
EXTENDS MmsContent, TLAPS

(* An attachment row belongs to the delivery that inserted it, and says    *)
(* what that delivery knows of it.                                         *)
RowOK(a) ==
  LET r == delivery[a[1]]
  IN rows[a] # "none" =>
       /\ r.content = message
       /\ a[2] \in Images[r.content]
       /\ r.pc \in After \union Over
       /\ rows[a] = "pending" => r.pc \in {"discard", "publish", "upload", "dead"}
       /\ rows[a] # "pending" => r.pc \in {"clean", "acked", "dead"}
       /\ rows[a] = "done" => a \in objects
       /\ r.pc \in {"discard", "publish"} => r.added /\ ~r.same
       /\ r.pc = "upload" /\ a[2] \in r.put => a \in objects

(* A delivery deletes only objects whose rows are gone for good, and the   *)
(* fingerprint it found is still there unless it has been overtaken.       *)
DeliveryOK(d) ==
  LET r == delivery[d]
  IN /\ r.pc # "idle" => r.content \in Contents
     /\ r.pc \in {"compare", "fetch"} \/ r.same => r.expected = r.content
     /\ r.pc \in {"idle", "inspect", "compare", "fetch"} => ~r.same
     /\ r.pc \notin {"upload", "clean"} => r.put = {}
     /\ r.pc \in {"compare", "fetch", "store"} => r.expected = message \/ d \in overtaken
     /\ r.pc \in After \union {"acked"} => message = r.content \/ d \in overtaken
     /\ r.pc \in {"discard", "clean"} =>
          \A a \in r.old : rows[a] = "none" /\ delivery[a[1]].pc \notin Before

IInv ==
  /\ TypeOK
  /\ \A a \in Ids : RowOK(a)
  /\ \A d \in Deliveries : DeliveryOK(d)

-----------------------------------------------------------------------------
LEMMA InitIInv == Init => IInv
<1> SUFFICES ASSUME Init PROVE IInv
  OBVIOUS
<1> USE DEF Init
<1>1. NewDelivery \in DeliveryStates
  BY DEF NewDelivery, DeliveryStates, Before
<1>2. TypeOK
  BY <1>1 DEF TypeOK
<1>3. \A a \in Ids : RowOK(a)
  BY DEF RowOK
<1>4. \A d \in Deliveries : DeliveryOK(d)
  BY DEF DeliveryOK, NewDelivery, After
<1> QED
  BY <1>2, <1>3, <1>4 DEF IInv

(* A step of one delivery that leaves the message alone, changes no row of *)
(* another delivery, and deletes no object a row still names.              *)
LEMMA LocalStep ==
  ASSUME IInv, NEW d \in Deliveries, NEW r \in DeliveryStates,
         delivery' = [delivery EXCEPT ![d] = r],
         UNCHANGED <<message, overtaken>>,
         rows' \in [Ids -> {"none", "pending", "done", "failed"}],
         \A a \in Ids : a[1] # d \/ rows[a] = "none" => rows'[a] = rows[a],
         objects' \subseteq Ids, unannounced' \in BOOLEAN,
         \A a \in objects : rows[a] # "none" => a \in objects',
         delivery[d].pc \notin Before => r.pc \notin Before,
         \A a \in Ids : a[1] = d => RowOK(a)',
         DeliveryOK(d)'
  PROVE  IInv'
<1>1. delivery'[d] = r /\ \A e \in Deliveries \ {d} : delivery'[e] = delivery[e]
  BY DEF IInv, TypeOK
<1>2. TypeOK'
  BY DEF IInv, TypeOK
<1>3. ASSUME NEW a \in Ids PROVE RowOK(a)'
  <2>1. CASE a[1] # d
    BY <1>1, <2>1 DEF IInv, RowOK, Ids
  <2> QED
    BY <2>1
<1>4. ASSUME NEW e \in Deliveries, e # d PROVE DeliveryOK(e)'
  <2>1. delivery'[e] = delivery[e] /\ DeliveryOK(e)
    BY <1>1, <1>4 DEF IInv
  <2>2. \A f \in Deliveries : delivery[f].pc \notin Before => delivery'[f].pc \notin Before
    BY <1>1
  <2>3. delivery[e].old \subseteq Ids
    BY DEF IInv, TypeOK, DeliveryStates
  <2> QED
    BY <2>1, <2>2, <2>3 DEF DeliveryOK, Ids
<1> QED
  BY <1>2, <1>3, <1>4 DEF IInv

-----------------------------------------------------------------------------
(* The steps before the batch. *)
LEMMA ReceiveMmsOK ==
  ASSUME IInv, NEW d \in Deliveries, NEW c \in Contents, ReceiveMms(d, c)
  PROVE  IInv'
<1> DEFINE r == [delivery[d] EXCEPT !.pc = "inspect", !.content = c]
<1>1. /\ delivery[d] \in DeliveryStates /\ delivery \in [Deliveries -> DeliveryStates]
      /\ message \in Contents \union {None}
  BY DEF IInv, TypeOK
<1>2. r \in DeliveryStates
  BY <1>1 DEF ReceiveMms, DeliveryStates, Before, After, Over
<1>3. r \in DeliveryStates /\ delivery' = [delivery EXCEPT ![d] = r]
  BY <1>1, <1>2 DEF ReceiveMms
<1>4. delivery[d] \in DeliveryStates /\ delivery'[d] = r
  BY <1>3 DEF IInv, TypeOK
<1>5. DeliveryOK(d) /\ \A a \in Ids : RowOK(a)
  BY DEF IInv
<1>6. \A a \in Ids : a[1] = d => RowOK(a)'
  BY <1>4, <1>5 DEF ReceiveMms, RowOK, Before, After, Over
<1>7. DeliveryOK(d)'
  BY <1>4, <1>5, ContentsAssumption DEF ReceiveMms, DeliveryOK, Before, After, Over
<1>8. r.pc \notin Before \/ delivery[d].pc \in Before
  BY <1>3 DEF ReceiveMms, Before
<1> HIDE DEF r
<1> QED
  BY <1>3, <1>6, <1>7, <1>8, LocalStep DEF ReceiveMms, IInv, TypeOK

LEMMA ReadFingerprintOK ==
  ASSUME IInv, NEW d \in Deliveries, ReadFingerprint(d)
  PROVE  IInv'
<1> DEFINE r == [delivery[d] EXCEPT !.expected = message,
                  !.pc = IF message = Content(d) THEN "compare" ELSE "store"]
<1>1. /\ delivery[d] \in DeliveryStates /\ delivery \in [Deliveries -> DeliveryStates]
      /\ message \in Contents \union {None}
  BY DEF IInv, TypeOK
<1>2. r \in DeliveryStates
  BY <1>1 DEF ReadFingerprint, DeliveryStates, Before, After, Over, Content
<1>3. r \in DeliveryStates /\ delivery' = [delivery EXCEPT ![d] = r]
  BY <1>1, <1>2 DEF ReadFingerprint
<1>4. delivery[d] \in DeliveryStates /\ delivery'[d] = r
  BY <1>3 DEF IInv, TypeOK
<1>5. DeliveryOK(d) /\ \A a \in Ids : RowOK(a)
  BY DEF IInv
<1>6. \A a \in Ids : a[1] = d => RowOK(a)'
  BY <1>4, <1>5 DEF ReadFingerprint, RowOK, Before, After, Over
<1>7. DeliveryOK(d)'
  BY <1>4, <1>5, ContentsAssumption
     DEF ReadFingerprint, DeliveryOK, Before, After, Over, Content
<1>8. r.pc \notin Before \/ delivery[d].pc \in Before
  BY <1>3 DEF ReadFingerprint, Before
<1> HIDE DEF r
<1> QED
  BY <1>3, <1>6, <1>7, <1>8, LocalStep DEF ReadFingerprint, IInv, TypeOK

LEMMA CompareRowsOK ==
  ASSUME IInv, NEW d \in Deliveries, CompareRows(d)
  PROVE  IInv'
<1> DEFINE r == [delivery[d] EXCEPT
                  !.pc = IF RowsMatch(Content(d)) THEN "fetch" ELSE "store",
                  !.old = IF RowsMatch(Content(d))
                          THEN {a \in Attachments : rows[a] = "done"} ELSE {}]
<1>1. /\ delivery[d] \in DeliveryStates /\ delivery \in [Deliveries -> DeliveryStates]
      /\ message \in Contents \union {None}
  BY DEF IInv, TypeOK
<1>2. r \in DeliveryStates
  BY <1>1 DEF CompareRows, DeliveryStates, Before, After, Over, Attachments
<1>3. r \in DeliveryStates /\ delivery' = [delivery EXCEPT ![d] = r]
  BY <1>1, <1>2 DEF CompareRows
<1>4. delivery[d] \in DeliveryStates /\ delivery'[d] = r
  BY <1>3 DEF IInv, TypeOK
<1>5. DeliveryOK(d) /\ \A a \in Ids : RowOK(a)
  BY DEF IInv
<1>6. \A a \in Ids : a[1] = d => RowOK(a)'
  BY <1>4, <1>5 DEF CompareRows, RowOK, Before, After, Over
<1>7. DeliveryOK(d)'
  BY <1>4, <1>5, ContentsAssumption DEF CompareRows, DeliveryOK, Before, After, Over
<1>8. r.pc \notin Before \/ delivery[d].pc \in Before
  BY <1>3 DEF CompareRows, Before
<1> HIDE DEF r
<1> QED
  BY <1>3, <1>6, <1>7, <1>8, LocalStep DEF CompareRows, IInv, TypeOK

LEMMA CompareObjectOK ==
  ASSUME IInv, NEW d \in Deliveries, CompareObject(d)
  PROVE  IInv'
<1> DEFINE r == delivery'[d]
<1>1. /\ delivery[d] \in DeliveryStates /\ delivery \in [Deliveries -> DeliveryStates]
      /\ message \in Contents \union {None}
  BY DEF IInv, TypeOK
<1>2. /\ r \in DeliveryStates /\ delivery' = [delivery EXCEPT ![d] = r]
      /\ delivery[d].pc = "fetch"
      /\ (r.pc = "fetch" /\ r.same = delivery[d].same) \/ r.pc = "store"
      /\ r.content = delivery[d].content /\ r.expected = delivery[d].expected
      /\ r.put = delivery[d].put
  <2> DEFINE first == {a \in delivery[d].old : \A b \in delivery[d].old : a[2] <= b[2]}
             same == first \subseteq objects /\ Content(d) \notin Oversized
  <2>1. CASE delivery' = [delivery EXCEPT ![d] =
                [delivery[d] EXCEPT !.old = delivery[d].old \ first]]
    BY <1>1, <2>1 DEF CompareObject, DeliveryStates
  <2>2. CASE delivery' = [delivery EXCEPT ![d] =
                [delivery[d] EXCEPT !.pc = "store", !.same = same]]
    <3>1. same \in BOOLEAN
      OBVIOUS
    <3> HIDE DEF same
    <3> QED
      BY <1>1, <2>2, <3>1 DEF CompareObject, DeliveryStates, Before
  <2> QED
    BY <2>1, <2>2 DEF CompareObject
<1> HIDE DEF r
<1>3. delivery'[d] = r
  BY DEF r
<1>4. DeliveryOK(d) /\ \A a \in Ids : RowOK(a)
  BY DEF IInv
<1>5. \A a \in Ids : a[1] = d => RowOK(a)'
  BY <1>2, <1>3, <1>4 DEF CompareObject, RowOK, Before, After, Over
<1>6. DeliveryOK(d)'
  BY <1>2, <1>3, <1>4 DEF CompareObject, DeliveryOK, Before, After, Over
<1>7. delivery[d].pc \in Before
  BY <1>2 DEF Before
<1> QED
  BY <1>2, <1>5, <1>6, <1>7, LocalStep DEF CompareObject, IInv, TypeOK

-----------------------------------------------------------------------------
(* The steps after the batch. *)
LEMMA DiscardReplacedMmsObjectsOK ==
  ASSUME IInv, NEW d \in Deliveries, DiscardReplacedMmsObjects(d)
  PROVE  IInv'
<1> DEFINE r == [delivery[d] EXCEPT !.pc = "publish", !.old = {}]
<1>1. /\ delivery[d] \in DeliveryStates /\ delivery \in [Deliveries -> DeliveryStates]
      /\ message \in Contents \union {None}
  BY DEF IInv, TypeOK
<1>2. r \in DeliveryStates
  BY <1>1, ContentsAssumption
     DEF DiscardReplacedMmsObjects, DeliveryStates, Before, After, Over
<1>3. r \in DeliveryStates /\ delivery' = [delivery EXCEPT ![d] = r]
  BY <1>1, <1>2 DEF DiscardReplacedMmsObjects
<1>4. delivery[d] \in DeliveryStates /\ delivery'[d] = r
  BY <1>3 DEF IInv, TypeOK
<1>5. DeliveryOK(d) /\ \A a \in Ids : RowOK(a)
  BY DEF IInv
<1>6. objects' \subseteq Ids /\ \A a \in objects : rows[a] # "none" => a \in objects'
  BY <1>5 DEF DiscardReplacedMmsObjects, DeliveryOK, IInv, TypeOK
<1>7. \A a \in Ids : a[1] = d => RowOK(a)'
  BY <1>4, <1>5, <1>6 DEF DiscardReplacedMmsObjects, RowOK, Before, After, Over
<1>8. DeliveryOK(d)'
  BY <1>4, <1>5, ContentsAssumption
     DEF DiscardReplacedMmsObjects, DeliveryOK, Before, After, Over
<1>9. r.pc \notin Before \/ delivery[d].pc \in Before
  BY <1>3 DEF DiscardReplacedMmsObjects, Before
<1> HIDE DEF r
<1> QED
  BY <1>3, <1>7, <1>8, <1>9, <1>6, LocalStep
     DEF DiscardReplacedMmsObjects, IInv, TypeOK

LEMMA PublishMmsContentUpdateOK ==
  ASSUME IInv, NEW d \in Deliveries, PublishMmsContentUpdate(d)
  PROVE  IInv'
<1> DEFINE r == [delivery[d] EXCEPT
                  !.pc = IF (IF delivery[d].added THEN Candidates(d) ELSE {}) = {}
                         THEN "acked" ELSE "upload",
                  !.todo = IF delivery[d].added THEN Candidates(d) ELSE {}]
<1>1. /\ delivery[d] \in DeliveryStates /\ delivery \in [Deliveries -> DeliveryStates]
      /\ message \in Contents \union {None}
  BY DEF IInv, TypeOK
<1>2. Candidates(d) \subseteq Indexes
  BY <1>1, ContentsAssumption
     DEF PublishMmsContentUpdate, Candidates, Content, IInv, DeliveryOK
<1>3. r \in DeliveryStates
  BY <1>1, <1>2 DEF DeliveryStates, Over, After
<1>4. r \in DeliveryStates /\ delivery' = [delivery EXCEPT ![d] = r]
  BY <1>1, <1>3 DEF PublishMmsContentUpdate, Candidates, Content
<1>5. delivery[d] \in DeliveryStates /\ delivery'[d] = r
  BY <1>4 DEF IInv, TypeOK
<1>6. DeliveryOK(d) /\ \A a \in Ids : RowOK(a)
  BY DEF IInv
<1>7. \A a \in Ids : a[1] = d => RowOK(a)'
  BY <1>5, <1>6
     DEF PublishMmsContentUpdate, RowOK, Before, After, Over, Candidates, Content,
         DeliveryOK
<1>8. DeliveryOK(d)'
  BY <1>5, <1>6, ContentsAssumption
     DEF PublishMmsContentUpdate, DeliveryOK, Before, After, Over, Candidates,
         Content
<1>9. r.pc \notin Before \/ delivery[d].pc \in Before
  BY <1>4 DEF PublishMmsContentUpdate, Before, Candidates, Content
<1> HIDE DEF r
<1> QED
  BY <1>4, <1>7, <1>8, <1>9, LocalStep DEF PublishMmsContentUpdate, IInv, TypeOK

LEMMA DeleteStaleObjectsOK ==
  ASSUME IInv, NEW d \in Deliveries, DeleteStaleObjects(d)
  PROVE  IInv'
<1> DEFINE r == [delivery[d] EXCEPT !.pc = "acked", !.old = {}, !.put = {}]
<1>1. /\ delivery[d] \in DeliveryStates /\ delivery \in [Deliveries -> DeliveryStates]
      /\ message \in Contents \union {None}
  BY DEF IInv, TypeOK
<1>2. r \in DeliveryStates
  BY <1>1, ContentsAssumption
     DEF DeleteStaleObjects, DeliveryStates, Before, After, Over
<1>3. r \in DeliveryStates /\ delivery' = [delivery EXCEPT ![d] = r]
  BY <1>1, <1>2 DEF DeleteStaleObjects
<1>4. delivery[d] \in DeliveryStates /\ delivery'[d] = r
  BY <1>3 DEF IInv, TypeOK
<1>5. DeliveryOK(d) /\ \A a \in Ids : RowOK(a)
  BY DEF IInv
<1>6. objects' \subseteq Ids /\ \A a \in objects : rows[a] # "none" => a \in objects'
  BY <1>5 DEF DeleteStaleObjects, DeliveryOK, IInv, TypeOK
<1>7. \A a \in Ids : a[1] = d => RowOK(a)'
  BY <1>4, <1>5, <1>6 DEF DeleteStaleObjects, RowOK, Before, After, Over
<1>8. DeliveryOK(d)'
  BY <1>4, <1>5, ContentsAssumption
     DEF DeleteStaleObjects, DeliveryOK, Before, After, Over
<1>9. r.pc \notin Before \/ delivery[d].pc \in Before
  BY <1>3 DEF DeleteStaleObjects, Before
<1> HIDE DEF r
<1> QED
  BY <1>3, <1>7, <1>8, <1>9, <1>6, LocalStep DEF DeleteStaleObjects, IInv, TypeOK

LEMMA DeliveryDiesOK ==
  ASSUME IInv, NEW d \in Deliveries, DeliveryDies(d)
  PROVE  IInv'
<1> DEFINE r == [NewDelivery EXCEPT !.pc = "dead", !.content = Content(d)]
<1>1. /\ delivery[d] \in DeliveryStates /\ delivery \in [Deliveries -> DeliveryStates]
      /\ message \in Contents \union {None}
  BY DEF IInv, TypeOK
<1>2. r \in DeliveryStates
  BY <1>1, ContentsAssumption
     DEF DeliveryDies, DeliveryStates, Before, After, Over, NewDelivery, Content
<1>3. r \in DeliveryStates /\ delivery' = [delivery EXCEPT ![d] = r]
  BY <1>1, <1>2 DEF DeliveryDies, NewDelivery, Content
<1>4. delivery[d] \in DeliveryStates /\ delivery'[d] = r
  BY <1>3 DEF IInv, TypeOK
<1>5. DeliveryOK(d) /\ \A a \in Ids : RowOK(a)
  BY DEF IInv
<1>6. \A a \in Ids : a[1] = d => RowOK(a)'
  BY <1>4, <1>5 DEF DeliveryDies, RowOK, Before, After, Over, NewDelivery, Content
<1>7. DeliveryOK(d)'
  BY <1>4, <1>5, ContentsAssumption
     DEF DeliveryDies, DeliveryOK, Before, After, Over, NewDelivery, Content
<1>8. r.pc \notin Before \/ delivery[d].pc \in Before
  BY <1>3 DEF DeliveryDies, Before, NewDelivery, Content
<1> HIDE DEF r
<1> QED
  BY <1>3, <1>6, <1>7, <1>8, LocalStep DEF DeliveryDies, IInv, TypeOK

LEMMA PutAttachmentOK ==
  ASSUME IInv, NEW d \in Deliveries, NEW i \in Indexes, PutAttachment(d, i)
  PROVE  IInv'
<1> DEFINE r == delivery'[d]
<1>1. /\ delivery[d] \in DeliveryStates /\ delivery \in [Deliveries -> DeliveryStates]
      /\ objects \subseteq Ids /\ i \in Indexes
  BY DEF IInv, TypeOK
<1>2. /\ r \in DeliveryStates /\ delivery' = [delivery EXCEPT ![d] = r]
      /\ delivery[d].pc = "upload" /\ r.pc = "upload"
      /\ r.content = delivery[d].content /\ r.same = delivery[d].same
      /\ r.expected = delivery[d].expected
      /\ r.put \subseteq delivery[d].put \union {i}
      /\ r.put \subseteq delivery[d].put \/ <<d, i>> \in objects'
  <2>1. CASE delivery' = [delivery EXCEPT ![d] =
                [delivery[d] EXCEPT !.todo = delivery[d].todo \ {i},
                                    !.put = delivery[d].put \union {i}]]
             /\ objects' = objects \union {<<d, i>>}
    BY <1>1, <2>1 DEF PutAttachment, DeliveryStates
  <2>2. CASE delivery' = [delivery EXCEPT ![d] =
                [delivery[d] EXCEPT !.todo = delivery[d].todo \ {i}]]
    BY <1>1, <2>2 DEF PutAttachment, DeliveryStates
  <2> QED
    BY <2>1, <2>2 DEF PutAttachment
<1> HIDE DEF r
<1>3. delivery'[d] = r
  BY DEF r
<1>4. DeliveryOK(d) /\ \A a \in Ids : RowOK(a)
  BY DEF IInv
<1>5. objects' \subseteq Ids /\ objects \subseteq objects'
  BY <1>1 DEF PutAttachment, Ids
<1>6. \A a \in Ids : a[1] = d => RowOK(a)'
  <2> SUFFICES ASSUME NEW a \in Ids, a[1] = d PROVE RowOK(a)'
    OBVIOUS
  <2>1. a[2] \in r.put /\ a[2] \notin delivery[d].put => a \in objects'
    BY <1>2 DEF Ids
  <2> QED
    BY <1>2, <1>3, <1>4, <1>5, <2>1 DEF PutAttachment, RowOK, After, Over
<1>7. DeliveryOK(d)'
  BY <1>2, <1>3, <1>4 DEF PutAttachment, DeliveryOK, After, Over
<1>8. r.pc \notin Before
  BY <1>2 DEF Before
<1> QED
  BY <1>2, <1>5, <1>6, <1>7, <1>8, LocalStep DEF PutAttachment, IInv, TypeOK

LEMMA FinalizeMmsAttachmentsOK ==
  ASSUME IInv, NEW d \in Deliveries, FinalizeMmsAttachments(d)
  PROVE  IInv'
<1> DEFINE r == [delivery[d] EXCEPT !.pc = "clean", !.old = Put(d) \ Mine(d)]
<1> USE DEF FinalizeMmsAttachments, Finalize
<1>1. /\ delivery[d] \in DeliveryStates /\ delivery \in [Deliveries -> DeliveryStates]
      /\ rows \in [Ids -> {"none", "pending", "done", "failed"}]
      /\ delivery[d].pc = "upload"
  BY DEF IInv, TypeOK
<1>2. r \in DeliveryStates
  BY <1>1 DEF DeliveryStates, After, Put, Ids
<1>3. r \in DeliveryStates /\ delivery' = [delivery EXCEPT ![d] = r]
  BY <1>1, <1>2
<1>4. delivery'[d] = r /\ r.pc = "clean" /\ r.content = delivery[d].content
      /\ r.same = delivery[d].same /\ r.expected = delivery[d].expected
      /\ r.old = Put(d) \ Mine(d)
  BY <1>1, <1>3 DEF DeliveryStates
<1> HIDE DEF r
<1>5. DeliveryOK(d) /\ \A a \in Ids : RowOK(a)
  BY DEF IInv
<1>6. \A a \in Ids : a \in Mine(d) <=> a[1] = d /\ rows[a] # "none"
  <2>1. \A a \in Ids : a = <<a[1], a[2]>>
    BY DEF Ids
  <2>2. \A a \in Ids : a[1] = d /\ rows[a] # "none"
          => rows[a] = "pending" /\ a[2] \in Images[Content(d)]
    BY <1>1, <1>5 DEF RowOK, Content
  <2> QED
    BY <2>1, <2>2 DEF Mine
<1>7. \A a \in Ids : rows'[a] = IF a \notin Mine(d) THEN rows[a]
                               ELSE IF a[2] \in delivery[d].put THEN "done" ELSE "failed"
  OBVIOUS
<1>8. \A a \in Ids : a[1] = d => RowOK(a)'
  BY <1>1, <1>4, <1>5, <1>6, <1>7 DEF RowOK, After, Over
<1>9. \A a \in r.old : a \in Ids /\ rows'[a] = "none" /\ a[1] = d
  <2>1. \A a \in r.old : a \in Ids /\ a[1] = d /\ a \notin Mine(d)
    BY <1>1, <1>4 DEF Put, Ids, DeliveryStates
  <2> QED
    BY <2>1, <1>6, <1>7
<1>10. DeliveryOK(d)'
  BY <1>1, <1>4, <1>5, <1>9 DEF DeliveryOK, Before, After, Over
<1>11. r.pc \notin Before
  BY <1>4 DEF Before
<1>12. rows' \in [Ids -> {"none", "pending", "done", "failed"}]
  BY <1>1
<1>13. \A a \in Ids : a[1] # d \/ rows[a] = "none" => rows'[a] = rows[a]
  BY <1>6, <1>7
<1> QED
  BY <1>3, <1>8, <1>10, <1>11, <1>12, <1>13, LocalStep DEF IInv, TypeOK

-----------------------------------------------------------------------------
(* The batch: whatever changes the fingerprint leaves only rows of the     *)
(* delivery that changed it.                                               *)
LEMMA StoreInboundMessageOK ==
  ASSUME IInv, NEW d \in Deliveries, StoreInboundMessage(d)
  PROVE  IInv'
<1> DEFINE c == Content(d)
           created == message = None
           changed == Overwrites(d)
           replaces == ~delivery[d].same /\ (message \in {None, c} \/ changed)
           old == IF replaces THEN Attachments ELSE {}
           new == IF replaces THEN {d} \X Images[c] ELSE {}
           added == old \union new # {}
           r == [delivery[d] EXCEPT !.pc = "discard", !.created = created,
                   !.changed = changed, !.added = added, !.old = old]
<1>1. /\ delivery[d] \in DeliveryStates /\ delivery \in [Deliveries -> DeliveryStates]
      /\ message \in Contents \union {None} /\ overtaken \subseteq Deliveries
      /\ rows \in [Ids -> {"none", "pending", "done", "failed"}]
      /\ objects \subseteq Ids /\ unannounced \in BOOLEAN
  BY DEF IInv, TypeOK
<1>2. /\ delivery[d].pc = "store"
      /\ message' = IF created \/ changed THEN c ELSE message
      /\ rows' = [a \in Ids |-> IF a \in new THEN "pending"
                                ELSE IF a \in old THEN "none" ELSE rows[a]]
      /\ delivery' = [delivery EXCEPT ![d] = r]
      /\ unannounced' = (~created /\ (unannounced \/ changed \/ added))
      /\ overtaken' = IF created \/ changed
                      THEN {e \in Deliveries \ {d} : delivery[e].pc # "idle"}
                      ELSE overtaken
      /\ objects' = objects
  BY DEF StoreInboundMessage, StoreContent
<1>3. (\A a \in Ids : RowOK(a)) /\ \A e \in Deliveries : DeliveryOK(e)
  BY DEF IInv
<1>4. c \in Contents
  BY <1>2, <1>3 DEF DeliveryOK, Content
<1>5. \A a \in Ids : rows[a] # "none" =>
        a[1] # d /\ message # None /\ delivery[a[1]].pc \notin Before
  <2> SUFFICES ASSUME NEW a \in Ids, rows[a] # "none"
               PROVE  a[1] # d /\ message # None /\ delivery[a[1]].pc \notin Before
    OBVIOUS
  <2>1. delivery[a[1]].pc \in After \union Over /\ delivery[a[1]].content = message
    BY <1>3 DEF RowOK
  <2>2. a[1] \in Deliveries
    BY DEF Ids
  <2> QED
    BY <1>2, <1>3, <2>1, <2>2, ContentsAssumption DEF DeliveryOK, After, Over, Before
<1>6. changed => replaces
  BY <1>2, <1>3 DEF DeliveryOK, Overwrites, Content
<1>7. replaces => message' = c
  BY <1>2
<1>8. old \subseteq Ids /\ \A a \in old : rows[a] # "none"
  BY DEF Attachments
<1>9. new \subseteq Ids /\ \A a \in new : a[1] = d /\ a[2] \in Images[c]
  <2>1. Images[c] \subseteq Indexes
    BY <1>4, ContentsAssumption
  <2> QED
    BY <2>1 DEF Ids
<1>10. created \in BOOLEAN /\ changed \in BOOLEAN /\ added \in BOOLEAN
  BY DEF Overwrites
<1>11. r \in DeliveryStates
  <2> HIDE DEF old, added, changed, created
  <2> QED
    BY <1>1, <1>8, <1>10 DEF DeliveryStates, After
<1>12. /\ delivery'[d] = r /\ r.pc = "discard" /\ r.content = c
       /\ r.expected = delivery[d].expected /\ r.same = delivery[d].same
       /\ r.added = added /\ r.old = old /\ r.put = delivery[d].put
       /\ \A e \in Deliveries \ {d} : delivery'[e] = delivery[e]
  BY <1>1, <1>2, <1>11 DEF DeliveryStates, Content
<1> HIDE DEF r
<1>13. TypeOK'
  <2>1. rows' \in [Ids -> {"none", "pending", "done", "failed"}]
    BY <1>1, <1>2
  <2>2. message' \in Contents \union {None} /\ overtaken' \subseteq Deliveries
    BY <1>1, <1>2, <1>4
  <2>3. unannounced' \in BOOLEAN
    BY <1>1, <1>2, <1>10
  <2>4. delivery' \in [Deliveries -> DeliveryStates]
    BY <1>1, <1>2, <1>11
  <2> QED
    BY <1>1, <1>2, <2>1, <2>2, <2>3, <2>4 DEF TypeOK
<1>14. ASSUME NEW a \in Ids PROVE RowOK(a)'
  <2>1. CASE a \in new
    <3>1. replaces /\ rows'[a] = "pending" /\ a[1] = d /\ a[2] \in Images[c] /\ added
      BY <1>2, <1>9, <2>1
    <3> QED
      BY <1>7, <1>12, <3>1 DEF RowOK, After
  <2>2. CASE a \notin new /\ rows'[a] # "none"
    <3>1. rows'[a] = rows[a] /\ a \notin old
      BY <1>2, <2>2
    <3>2. a \in Attachments
      BY <2>2, <3>1 DEF Attachments
    <3>3. ~replaces /\ message' = message
      BY <1>2, <1>5, <1>6, <2>2, <3>1, <3>2
    <3>4. delivery'[a[1]] = delivery[a[1]]
      BY <1>5, <1>12, <2>2, <3>1 DEF Ids
    <3> QED
      BY <1>2, <1>3, <3>1, <3>3, <3>4 DEF RowOK
  <2> QED
    BY <2>1, <2>2 DEF RowOK
<1>15. DeliveryOK(d)'
  <2>1. message' = c \/ d \in overtaken'
    BY <1>2, <1>3 DEF DeliveryOK, Overwrites
  <2>2. \A a \in old : rows'[a] = "none" /\ delivery'[a[1]].pc \notin Before
    BY <1>2, <1>5, <1>8, <1>9, <1>12 DEF Ids
  <2> QED
    BY <1>2, <1>3, <1>4, <1>12, <2>1, <2>2 DEF DeliveryOK, After, Content
<1>16. ASSUME NEW e \in Deliveries, e # d PROVE DeliveryOK(e)'
  <2>1. delivery'[e] = delivery[e] /\ DeliveryOK(e)
    BY <1>3, <1>12, <1>16
  <2>2. \/ message' = message /\ overtaken' = overtaken
        \/ delivery[e].pc = "idle"
        \/ e \in overtaken'
    BY <1>2, <1>16
  <2>3. ASSUME NEW a \in delivery[e].old, delivery[e].pc \in {"discard", "clean"}
        PROVE  rows'[a] = "none" /\ delivery'[a[1]].pc \notin Before
    <3>1. a \in Ids /\ rows[a] = "none" /\ delivery[a[1]].pc \notin Before
      BY <1>1, <2>1, <2>3 DEF DeliveryOK, DeliveryStates
    <3>2. a[1] # d
      BY <1>2, <3>1 DEF Before
    <3>3. a \notin new /\ delivery'[a[1]] = delivery[a[1]]
      BY <1>9, <1>12, <3>1, <3>2 DEF Ids
    <3> QED
      BY <1>2, <3>1, <3>3
  <2> QED
    BY <2>1, <2>2, <2>3 DEF DeliveryOK, After
<1> QED
  BY <1>13, <1>14, <1>15, <1>16 DEF IInv

-----------------------------------------------------------------------------
LEMMA NextIInv == IInv /\ [Next]_vars => IInv'
<1> SUFFICES ASSUME IInv, [Next]_vars PROVE IInv'
  OBVIOUS
<1>1. ASSUME NEW d \in Deliveries, NEW c \in Contents, ReceiveMms(d, c) PROVE IInv'
  BY <1>1, ReceiveMmsOK
<1>2. ASSUME NEW d \in Deliveries, Step(d) PROVE IInv'
  BY <1>2, ReadFingerprintOK, CompareRowsOK, CompareObjectOK, StoreInboundMessageOK,
     DiscardReplacedMmsObjectsOK, PublishMmsContentUpdateOK, PutAttachmentOK,
     FinalizeMmsAttachmentsOK, DeleteStaleObjectsOK DEF Step
<1>3. ASSUME NEW d \in Deliveries, DeliveryDies(d) PROVE IInv'
  BY <1>3, DeliveryDiesOK
<1>4. CASE UNCHANGED vars
  BY <1>4 DEF IInv, TypeOK, RowOK, DeliveryOK, vars, Attachments
<1> QED
  BY <1>1, <1>2, <1>3, <1>4 DEF Next

(* IInv holds in every state, with any number of deliveries, bodies and    *)
(* attachments, whatever dies and whatever overlaps.                       *)
THEOREM MmsInvariant == Spec => []IInv
<1> QED
  BY InitIInv, NextIInv, PTL DEF Spec

(* The variables have their types. *)
THEOREM MmsTypes == Spec => []TypeOK
<1>1. IInv => TypeOK
  BY DEF IInv
<1> QED
  BY <1>1, MmsInvariant, PTL

(* An attachment shown as completed can be opened: neither the discarding  *)
(* of replaced objects nor the deletion of stale ones reaches its object.  *)
THEOREM MmsCompletedHaveObjects == Spec => []CompletedHaveObjects
<1>1. IInv => CompletedHaveObjects
  BY DEF IInv, RowOK, CompletedHaveObjects
<1> QED
  BY <1>1, MmsInvariant, PTL

(* All attachments are of the body whose fingerprint the message has.      *)
THEOREM MmsOneGeneration == Spec => []ContentIsOneGeneration
<1>1. IInv => ContentIsOneGeneration
  BY DEF IInv, RowOK, ContentIsOneGeneration, Attachments, Content
<1> QED
  BY <1>1, MmsInvariant, PTL

(* A delivery that was answered has left none of its rows pending.         *)
THEOREM MmsAcknowledgedSettled == Spec => []AcknowledgedAreSettled
<1>1. IInv => AcknowledgedAreSettled
  BY DEF IInv, RowOK, AcknowledgedAreSettled, Attachments
<1> QED
  BY <1>1, MmsInvariant, PTL

(* A delivery that was answered has its body stored, or was overtaken.     *)
THEOREM MmsAcknowledgedStored == Spec => []AcknowledgedContentIsStored
<1>1. IInv => AcknowledgedContentIsStored
  BY DEF IInv, DeliveryOK, AcknowledgedContentIsStored, Content
<1> QED
  BY <1>1, MmsInvariant, PTL
=============================================================================
