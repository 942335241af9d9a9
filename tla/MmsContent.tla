------------------------------ MODULE MmsContent ------------------------------
(***************************************************************************)
(* The content of one MMS that a business phone has downloaded: the        *)
(* fingerprint of the message row, its message_attachments, and the R2     *)
(* objects they name.  The SMS gateway app posts mms:downloaded, again     *)
(* until it sees a 2xx, in parallel if an answer is late, and with other   *)
(* content if it has downloaded the MMS again.                             *)
(*                                                                         *)
(* A delivery is one run of handleMmsInbound                               *)
(* (worker/routes/hooks-sms-gateway.ts) with storeInboundMessage           *)
(* (worker/inbound-message.ts).  Every read, batch and R2 call it awaits   *)
(* is a step; it may die, or throw and answer 500, between any two.  Row   *)
(* ids are made by the delivery that inserts them, so the attachment with  *)
(* content index i of delivery d is <<d, i>>, and so is its object.        *)
(*                                                                         *)
(* Left out: title, time and conversation (module Inbox), the body, which  *)
(* goes with the fingerprint unless it is empty, and messages stored       *)
(* before there were fingerprints.  The statuses of an attachment are      *)
(* "pending" for 대기, "done" 완료, "failed" 실패, "none" without a row.  *)
(***************************************************************************)
EXTENDS Naturals

CONSTANTS
  Contents,    \* bodies of the webhook posted for this MMS
  Indexes,     \* content indexes of attachments
  Images,      \* attachments in a body
  Unreadable,  \* those whose data is missing, over the limit or no Base64
  Oversized,   \* bodies with an attachment over the limit
  Deliveries,  \* webhook invocations
  None

ASSUME ContentsAssumption ==
  /\ Indexes \subseteq Nat
  /\ Images \in [Contents -> SUBSET Indexes]
  /\ Unreadable \in [Contents -> SUBSET Indexes]
  /\ Oversized \subseteq Contents
  /\ None \notin Contents

VARIABLES
  message,      \* messages.inbound_fingerprint, None without a message
  rows,         \* status of the message_attachments, by id
  objects,      \* R2 objects, by the attachment they belong to
  delivery,     \* local state of each delivery
  unannounced,  \* has the content changed since the last event about it?
  overtaken     \* history: deliveries under way, or over, when another one
                \* last changed the content

vars == <<message, rows, objects, delivery, unannounced, overtaken>>

Ids == Deliveries \X Indexes
Before == {"idle", "inspect", "compare", "fetch", "store"}
After == {"discard", "publish", "upload", "clean"}
Over == {"acked", "dead"}

DeliveryStates ==
  [pc : Before \union After \union Over,
   content : Contents \union {None},
   expected : Contents \union {None},  \* the fingerprint it found
   same : BOOLEAN,                     \* sameGeneration
   created : BOOLEAN,                  \* of what storeInboundMessage returns:
   changed : BOOLEAN,                  \*   contentUpdated
   added : BOOLEAN,                    \*   attachmentsUpdated
   old : SUBSET Ids,      \* rows compared, rows replaced, then objects to delete
   todo : SUBSET Indexes, \* attachments not put yet
   put : SUBSET Indexes]  \* attachments put

NewDelivery ==
  [pc |-> "idle", content |-> None, expected |-> None, same |-> FALSE,
   created |-> FALSE, changed |-> FALSE, added |-> FALSE,
   old |-> {}, todo |-> {}, put |-> {}]

TypeOK ==
  /\ message \in Contents \union {None}
  /\ rows \in [Ids -> {"none", "pending", "done", "failed"}]
  /\ objects \subseteq Ids
  /\ delivery \in [Deliveries -> DeliveryStates]
  /\ unannounced \in BOOLEAN
  /\ overtaken \subseteq Deliveries

Init ==
  /\ message = None
  /\ rows = [a \in Ids |-> "none"]
  /\ objects = {}
  /\ delivery = [d \in Deliveries |-> NewDelivery]
  /\ unannounced = FALSE
  /\ overtaken = {}

Content(d) == delivery[d].content
Attachments == {a \in Ids : rows[a] # "none"}

-----------------------------------------------------------------------------
(***************************************************************************)
(* inspectMmsGeneration.                                                   *)
(***************************************************************************)
ReceiveMms(d, c) ==
  /\ delivery[d].pc = "idle"
  /\ delivery' = [delivery EXCEPT ![d] = [@ EXCEPT !.pc = "inspect", !.content = c]]
  /\ UNCHANGED <<message, rows, objects, unannounced, overtaken>>

ReadFingerprint(d) ==
  /\ delivery[d].pc = "inspect"
  /\ delivery' = [delivery EXCEPT ![d] =
       [@ EXCEPT !.expected = message,
                 !.pc = IF message = Content(d) THEN "compare" ELSE "store"]]
  /\ UNCHANGED <<message, rows, objects, unannounced, overtaken>>

(* The rows are those of this body: one for each of its attachments, with  *)
(* the metadata it gives, stored if the attachment can be read at all.     *)
RowsMatch(c) ==
  /\ Images[c] = {a[2] : a \in Attachments}
  /\ \A a \in Attachments :
       /\ Content(a[1]) = c
       /\ rows[a] = IF a[2] \in Unreadable[c] THEN "failed" ELSE "done"

CompareRows(d) ==
  /\ delivery[d].pc = "compare"
  /\ delivery' = [delivery EXCEPT ![d] =
       [@ EXCEPT !.pc = IF RowsMatch(Content(d)) THEN "fetch" ELSE "store",
                 !.old = IF RowsMatch(Content(d))
                         THEN {a \in Attachments : rows[a] = "done"} ELSE {}]]
  /\ UNCHANGED <<message, rows, objects, unannounced, overtaken>>

(* The objects are fetched one after the other.  An oversized body is      *)
(* never taken for the one that is stored: its quarantine may have failed. *)
CompareObject(d) ==
  LET r == delivery[d]
      first == {a \in r.old : \A b \in r.old : a[2] <= b[2]}
  IN /\ r.pc = "fetch"
     /\ \/ /\ first # r.old /\ first \subseteq objects
           /\ delivery' = [delivery EXCEPT ![d] = [@ EXCEPT !.old = r.old \ first]]
        \/ /\ first = r.old \/ ~(first \subseteq objects)
           /\ delivery' = [delivery EXCEPT ![d] =
                [@ EXCEPT !.pc = "store",
                          !.same = (first \subseteq objects
                                    /\ Content(d) \notin Oversized)]]
     /\ UNCHANGED <<message, rows, objects, unannounced, overtaken>>

-----------------------------------------------------------------------------
(***************************************************************************)
(* storeInboundMessage, one batch.                                         *)
(***************************************************************************)
(* What the batch leaves behind.  message.created announces a message with *)
(* all that is in it.                                                      *)
StoreContent(d, changed, replaces) ==
  LET c == Content(d)
      created == message = None
      old == IF replaces THEN Attachments ELSE {}
      new == IF replaces THEN {d} \X Images[c] ELSE {}
      added == old \union new # {}
  IN /\ delivery[d].pc = "store"
     /\ message' = IF created \/ changed THEN c ELSE message
     /\ rows' = [a \in Ids |-> IF a \in new THEN "pending"
                               ELSE IF a \in old THEN "none" ELSE rows[a]]
     /\ delivery' = [delivery EXCEPT ![d] =
          [@ EXCEPT !.pc = "discard", !.created = created, !.changed = changed,
                    !.added = added, !.old = old]]
     /\ unannounced' = (~created /\ (unannounced \/ changed \/ added))
     /\ overtaken' = IF created \/ changed
                     THEN {e \in Deliveries \ {d} : delivery[e].pc # "idle"}
                     ELSE overtaken
     /\ UNCHANGED objects

(* The fingerprint is replaced if it is still the one the delivery found. *)
Overwrites(d) == message \notin {None, Content(d)} /\ message = delivery[d].expected

(* Mutant: an absent fingerprint is expected, whatever was found. *)
StoreInboundMessageExpectingNone(d) ==
  StoreContent(d, FALSE, ~delivery[d].same /\ message \in {None, Content(d)})

(* Mutant: rows are replaced also if the fingerprint was another's. *)
StoreInboundMessageReplacingAlways(d) ==
  StoreContent(d, Overwrites(d), ~delivery[d].same)

(* The attachments are replaced if the fingerprint is now the delivery's   *)
(* own, which it also is when another delivery of the same body stored it. *)
StoreInboundMessage(d) ==
  StoreContent(d, Overwrites(d),
               ~delivery[d].same /\ (message \in {None, Content(d)} \/ Overwrites(d)))

-----------------------------------------------------------------------------
(***************************************************************************)
(* What follows the batch.                                                 *)
(***************************************************************************)
(* discardReplacedMmsObjects: some deletions may fail. *)
DiscardReplacedMmsObjects(d) ==
  /\ delivery[d].pc = "discard"
  /\ \E gone \in SUBSET delivery[d].old : objects' = objects \ gone
  /\ delivery' = [delivery EXCEPT ![d] = [@ EXCEPT !.pc = "publish", !.old = {}]]
  /\ UNCHANGED <<message, rows, unannounced, overtaken>>

Candidates(d) == IF delivery[d].same THEN {} ELSE Images[Content(d)]

(* publishMmsContentUpdate announces a change without attachments; if      *)
(* there are any, finalizeMmsAttachments will.  Quarantining an oversized  *)
(* body changes nothing here.                                              *)
PublishMmsContentUpdate(d) ==
  LET r == delivery[d]
      todo == IF r.added THEN Candidates(d) ELSE {}
  IN /\ r.pc = "publish"
     /\ unannounced' = IF ~r.created /\ Candidates(d) = {} /\ (r.changed \/ r.added)
                       THEN FALSE ELSE unannounced
     /\ delivery' = [delivery EXCEPT ![d] =
          [@ EXCEPT !.pc = IF todo = {} THEN "acked" ELSE "upload", !.todo = todo]]
     /\ UNCHANGED <<message, rows, objects, overtaken>>

(* Mutant: attachments are counted from one. *)
PutAttachmentFromOne(d, i) ==
  /\ delivery[d].pc = "upload"
  /\ i \in delivery[d].todo
  /\ delivery' = [delivery EXCEPT ![d] =
       [@ EXCEPT !.todo = delivery[d].todo \ {i}, !.put = delivery[d].put \union {i + 1}]]
  /\ objects' = objects \union {<<d, i>>}
  /\ UNCHANGED <<message, rows, unannounced, overtaken>>

(* finalizeMmsAttachments puts one attachment after the other; a put that  *)
(* fails, perhaps after it has stored the object, is caught.               *)
PutAttachment(d, i) ==
  LET r == delivery[d]
  IN /\ r.pc = "upload"
     /\ i \in r.todo
     /\ \A j \in r.todo : i <= j
     /\ \/ /\ i \notin Unreadable[Content(d)]
           /\ objects' = objects \union {<<d, i>>}
           /\ delivery' = [delivery EXCEPT ![d] =
                [@ EXCEPT !.todo = r.todo \ {i}, !.put = r.put \union {i}]]
        \/ /\ objects' \in IF i \in Unreadable[Content(d)] THEN {objects}
                           ELSE {objects, objects \union {<<d, i>>}}
           /\ delivery' = [delivery EXCEPT ![d] = [@ EXCEPT !.todo = r.todo \ {i}]]
     /\ UNCHANGED <<message, rows, unannounced, overtaken>>

(* One batch settles rows of the delivery and announces them.              *)
Finalize(d, mine, stale) ==
  LET r == delivery[d]
  IN /\ r.pc = "upload"
     /\ r.todo = {}
     /\ rows' = [a \in Ids |-> IF a \notin mine THEN rows[a]
                               ELSE IF a[2] \in r.put THEN "done" ELSE "failed"]
     /\ unannounced' = (unannounced /\ mine = {})
     /\ delivery' = [delivery EXCEPT ![d] = [@ EXCEPT !.pc = "clean", !.old = stale]]
     /\ UNCHANGED <<message, objects, overtaken>>

Put(d) == {d} \X delivery[d].put
Mine(d) == {a \in {d} \X Images[Content(d)] : rows[a] = "pending"}

(* Mutant: only the rows whose object was put are settled. *)
FinalizePutOnly(d) == Finalize(d, Mine(d) \intersect Put(d), Put(d) \ Mine(d))

(* Mutant: the objects of settled rows are taken for stale ones. *)
FinalizeDeletingAll(d) == Finalize(d, Mine(d), Put(d))

(* Those that are still there and pending are settled.                     *)
FinalizeMmsAttachments(d) == Finalize(d, Mine(d), Put(d) \ Mine(d))

(* The objects put for rows another delivery has replaced are deleted, as  *)
(* far as that succeeds, and the answer is 204.                            *)
DeleteStaleObjects(d) ==
  /\ delivery[d].pc = "clean"
  /\ \E gone \in SUBSET delivery[d].old : objects' = objects \ gone
  /\ delivery' = [delivery EXCEPT ![d] =
       [@ EXCEPT !.pc = "acked", !.old = {}, !.put = {}]]
  /\ UNCHANGED <<message, rows, unannounced, overtaken>>

(* The isolate is evicted, or a read or batch throws: no answer, or 500. *)
DeliveryDies(d) ==
  /\ delivery[d].pc \in (Before \union After) \ {"idle"}
  /\ delivery' = [delivery EXCEPT ![d] =
       [NewDelivery EXCEPT !.pc = "dead", !.content = Content(d)]]
  /\ UNCHANGED <<message, rows, objects, unannounced, overtaken>>

Step(d) ==
  \/ ReadFingerprint(d) \/ CompareRows(d) \/ CompareObject(d)
  \/ StoreInboundMessage(d)
  \/ DiscardReplacedMmsObjects(d) \/ PublishMmsContentUpdate(d)
  \/ \E i \in Indexes : PutAttachment(d, i)
  \/ FinalizeMmsAttachments(d) \/ DeleteStaleObjects(d)

Next ==
  \E d \in Deliveries :
    \/ \E c \in Contents : ReceiveMms(d, c)
    \/ Step(d)
    \/ DeliveryDies(d)

Spec == Init /\ [][Next]_vars

-----------------------------------------------------------------------------
(***************************************************************************)
(* Properties.                                                             *)
(***************************************************************************)
(* A completed attachment can be opened: its object is there, though       *)
(* deliveries discard what they replace and delete what came too late.     *)
CompletedHaveObjects == \A a \in Ids : rows[a] = "done" => a \in objects

(* The attachments are those of the body whose fingerprint the message     *)
(* has, never a mixture of two downloads of the MMS.                       *)
ContentIsOneGeneration == \A a \in Attachments : Content(a[1]) = message

(* A delivery answered with 204 will not come again: it leaves no row that *)
(* only it would have settled.                                             *)
AcknowledgedAreSettled ==
  \A a \in Attachments : rows[a] = "pending" => delivery[a[1]].pc # "acked"

(* A delivery that does not store its body, because the fingerprint is not *)
(* the one it found, has been overtaken: one that began later, or ended    *)
(* later, changed the content.  Nothing answered with 204 is just dropped. *)
AcknowledgedContentIsStored ==
  \A d \in Deliveries :
    delivery[d].pc \in After \union {"acked"} => message = Content(d) \/ d \in overtaken

(* db/events.ts:62 "여기서 batch를 실행하면 원인 변경과 감사 이벤트 사이의 *)
(* 원자성이 깨진다": a change and its event are not separated.  So a       *)
(* delivery that finds its body stored and is answered with 204, when no   *)
(* other is under way, leaves no content that has not been announced.      *)
AnsweredContentIsAnnounced ==
  [][\A d \in Deliveries :
       (/\ delivery[d].same /\ delivery[d].pc # "acked"
        /\ delivery'[d].pc = "acked" /\ message' = Content(d)
        /\ \A e \in Deliveries : delivery'[e].pc \in Over \union {"idle"})
       => ~unannounced']_delivery
=============================================================================
