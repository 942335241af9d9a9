------------------------------ MODULE InboxProofs ------------------------------
(***************************************************************************)
(* Proofs about Inbox for any number of members, requests, messages and    *)
(* times: the projection on the row of the conversation is exact, and what *)
(* a completed conversation, a PATCH and a read cursor know of it is true. *)
(***************************************************************************)
EXTENDS Inbox, FiniteSetTheorems, TLAPS

OneMessagePerId == \A m, n \in messages : m.id = n.id => m = n
OneMessagePerKey == \A m, n \in Inbound : m.moKey = n.moKey => m = n

(* The row and the messages it projects.                                   *)
MessagesInv ==
  /\ messages \subseteq Messages
  /\ OneMessagePerId /\ OneMessagePerKey
  /\ conversation \in Conversations \union {None}
  /\ knownWhenDone \in Counts
  /\ messages # {} => Exists
  /\ Exists /\ messages = {} => conversation.lastId = None /\ conversation.lastAt = 0
  /\ Exists => conversation.inbound = Cardinality(Inbound)
  /\ LastMessageIsLatest
  /\ CompletionsMissNothing

(* A request knows its sender, and a conversation that is there.  A PATCH  *)
(* whose version is still the row's counts what the row counts.            *)
RequestOK(r) ==
  /\ r \in RequestStates
  /\ r.pc # "idle" => r.by \in Members
  /\ r.pc # "idle" /\ r.kind # "start" => Exists
  /\ r.pc = "checked" /\ r.kind = "patch" =>
       /\ r.status \in Statuses
       /\ r.version <= conversation.version
       /\ r.version = conversation.version => r.count = conversation.inbound
  /\ r.pc = "checked" /\ r.kind \in {"assign", "unassign"} => r.target \in Members
  /\ r.pc = "counted" => r.kind = "read" /\ r.count <= conversation.inbound

RequestsInv ==
  request \in [Requests -> RequestStates] /\ \A q \in Requests : RequestOK(request[q])

MembersInv ==
  /\ reads \in [Members -> Counts]
  /\ assignees \subseteq Members
  /\ active \subseteq Members

InboxInv == MessagesInv /\ RequestsInv /\ MembersInv

-----------------------------------------------------------------------------
(* Counting.                                                               *)
LEMMA MessagesAreFinite ==
  ASSUME messages \subseteq Messages, OneMessagePerId
  PROVE  /\ IsFiniteSet(messages) /\ IsFiniteSet(Inbound)
         /\ Cardinality(Inbound) \in Nat /\ Cardinality(Inbound) <= MaxMessages
<1> DEFINE f == [m \in messages |-> m.id]
<1>1. f \in Injection(messages, Ids)
  BY DEF Injection, IsInjective, OneMessagePerId, Messages
<1>2. IsFiniteSet(Ids) /\ Cardinality(Ids) = MaxMessages
  BY BoundsAssumption, FS_Interval DEF Ids
<1>3. IsFiniteSet(messages) /\ Cardinality(messages) <= MaxMessages
  BY <1>1, <1>2, FS_Injection
<1>4. /\ IsFiniteSet(Inbound) /\ Cardinality(Inbound) <= Cardinality(messages)
  BY <1>3, FS_Subset DEF Inbound
<1>5. Cardinality(Inbound) \in Nat /\ Cardinality(messages) \in Nat
  BY <1>3, <1>4, FS_CardinalityType
<1> QED
  BY <1>3, <1>4, <1>5, BoundsAssumption

LEMMA KeysAreCounted ==
  ASSUME messages \subseteq Messages, OneMessagePerId, OneMessagePerKey
  PROVE  Cardinality({m.moKey : m \in Inbound}) = Cardinality(Inbound)
<1> DEFINE keys == {m.moKey : m \in Inbound}
           f == [m \in Inbound |-> m.moKey]
<1>1. f \in Bijection(Inbound, keys)
  BY DEF Bijection, Injection, Surjection, IsInjective, OneMessagePerKey
<1>2. IsFiniteSet(Inbound)
  BY MessagesAreFinite
<1>3. ExistsBijection(Inbound, keys)
  BY <1>1 DEF ExistsBijection
<1> QED
  BY <1>2, <1>3, FS_Bijection

LEMMA Known ==
  ASSUME InboxInv
  PROVE  /\ messages \subseteq Messages /\ OneMessagePerId
         /\ Exists => /\ conversation \in Conversations /\ conversation.version \in Nat
                      /\ conversation.inbound \in Counts /\ conversation.inbound \in Nat
                      /\ conversation.lastAt \in Nat
         /\ \A q \in Requests : RequestOK(request[q]) /\ request[q] \in RequestStates
         /\ \A r \in RequestStates : r.version \in Nat /\ r.count \in Counts /\ r.count \in Nat
         /\ ~Exists => messages = {}
         /\ IsFiniteSet(Inbound)
BY MessagesAreFinite, BoundsAssumption
DEF InboxInv, MessagesInv, RequestsInv, Exists, Conversations, RequestStates, Counts

LEMMA InitInboxInv == Init => InboxInv
<1> SUFFICES ASSUME Init PROVE InboxInv
  OBVIOUS
<1> USE BoundsAssumption, NoneAssumption DEF Init
<1>1. MessagesInv
  BY DEF MessagesInv, OneMessagePerId, OneMessagePerKey, Inbound, Exists, LastMessageIsLatest,
     CompletionsMissNothing, Counts
<1>2. NoRequest \in RequestStates /\ RequestOK(NoRequest)
  BY DEF NoRequest, RequestStates, RequestOK, Counts
<1>3. RequestsInv
  BY <1>2 DEF RequestsInv
<1>4. MembersInv
  BY DEF MembersInv, Counts
<1> QED
  BY <1>1, <1>3, <1>4 DEF InboxInv

-----------------------------------------------------------------------------
(* What requests know stays true while the row only rises: whatever counts *)
(* a message raises the version.                                           *)
RowRises ==
  /\ conversation' \in Conversations
  /\ Exists => /\ conversation'.inbound >= conversation.inbound
               /\ \/ conversation'.version > conversation.version
                  \/ /\ conversation'.version = conversation.version
                     /\ conversation'.inbound = conversation.inbound

LEMMA AnsweredIsOK ==
  ASSUME InboxInv, NEW q \in Requests, Answer(q)
  PROVE  /\ request' \in [Requests -> RequestStates]
         /\ \A p \in Requests : request'[p] \in {request[p], NoRequest}
<1>1. NoRequest \in RequestStates
  BY BoundsAssumption DEF NoRequest, RequestStates, Counts
<1> QED
  BY <1>1 DEF Answer, InboxInv, RequestsInv

LEMMA RequestsSurvive ==
  ASSUME InboxInv, RowRises, request' \in [Requests -> RequestStates],
         \A q \in Requests : request'[q] \in {request[q], NoRequest}
  PROVE  RequestsInv'
<1> USE NoneAssumption
<1>0. /\ conversation'.version \in Nat /\ conversation'.inbound \in Nat
      /\ Exists'
  BY DEF RowRises, Conversations, Counts, Exists
<1>1. ASSUME NEW q \in Requests PROVE RequestOK(request[q])'
  <2>1. CASE request'[q] = NoRequest
    BY <2>1, <1>1 DEF RequestOK, NoRequest
  <2>2. CASE request'[q] = request[q]
    <3>1. RequestOK(request[q]) /\ request[q].version \in Nat /\ request[q].count \in Nat
      BY Known
    <3>2. CASE Exists
      BY <1>0, <2>2, <3>1, <3>2, Known DEF RequestOK, RowRises
    <3>3. CASE ~Exists
      BY <1>0, <2>2, <3>1, <3>3 DEF RequestOK
    <3> QED
      BY <3>2, <3>3
  <2> QED
    BY <2>1, <2>2
<1> QED
  BY <1>1 DEF RequestsInv

(* A step beside the conversation.                                         *)
LEMMA RowStays ==
  ASSUME InboxInv, UNCHANGED <<messages, conversation, knownWhenDone>>,
         MembersInv', request' \in [Requests -> RequestStates],
         \A q \in Requests : \/ request'[q] \in {request[q], NoRequest}
                             \/ RequestOK(request'[q])
  PROVE  InboxInv'
<1>1. MessagesInv'
  BY DEF InboxInv, MessagesInv, OneMessagePerId, OneMessagePerKey, Inbound, Exists,
     LastMessageIsLatest, CompletionsMissNothing
<1>2. ASSUME NEW q \in Requests PROVE RequestOK(request[q])'
  <2>1. RequestOK(request'[q])
    <3>1. RequestOK(NoRequest)
      BY BoundsAssumption DEF NoRequest, RequestStates, RequestOK, Counts
    <3> QED
      BY <3>1, Known
  <2> QED
    BY <2>1 DEF RequestOK, Exists
<1> QED
  BY <1>1, <1>2 DEF InboxInv, RequestsInv

-----------------------------------------------------------------------------
(* A message is added: one of a customer counts, the row's last message    *)
(* stays or becomes this one.                                              *)
LEMMA MessageAdded ==
  ASSUME InboxInv, NEW new \in Messages, new.id \in FreeIds,
         messages' = messages \union {new},
         new.moKey # None => \A m \in messages : m.moKey # new.moKey,
         conversation' \in Conversations,
         knownWhenDone' = knownWhenDone,
         \/ /\ conversation'.lastId = new.id /\ conversation'.lastAt = new.at
            /\ Exists => new.at >= conversation.lastAt
         \/ /\ Exists /\ messages # {}
            /\ conversation'.lastId = conversation.lastId
            /\ conversation'.lastAt = conversation.lastAt
            /\ new.at <= conversation.lastAt,
         conversation'.inbound =
           (IF Exists THEN conversation.inbound ELSE 0) + (IF new.moKey # None THEN 1 ELSE 0),
         conversation'.status # "done"
  PROVE  MessagesInv'
<1> USE BoundsAssumption, NoneAssumption
<1>1. OneMessagePerId' /\ messages' \subseteq Messages
  BY Known DEF OneMessagePerId, FreeIds
<1>2. Inbound' = IF new.moKey # None THEN Inbound \union {new} ELSE Inbound
  BY DEF Inbound
<1>3. OneMessagePerKey'
  BY <1>2 DEF InboxInv, MessagesInv, OneMessagePerKey, Inbound
<1>4. Exists'
  BY DEF Exists
<1>5. conversation'.inbound = Cardinality(Inbound)'
  <2>1. (IF Exists THEN conversation.inbound ELSE 0) = Cardinality(Inbound)
    BY Known, FS_EmptySet DEF InboxInv, MessagesInv, Inbound
  <2>2. new \notin messages
    BY DEF FreeIds
  <2>3. CASE new.moKey # None
    <3>1. Cardinality(Inbound \union {new}) = Cardinality(Inbound) + 1
      BY <2>2, Known, FS_AddElement DEF Inbound
    <3> QED
      BY <1>2, <2>1, <2>3, <3>1
  <2>4. CASE new.moKey = None
    BY <1>2, <2>1, <2>4, Known, MessagesAreFinite
  <2> QED
    BY <2>3, <2>4
<1>6. LastMessageIsLatest'
  <2>1. /\ new.at \in Nat /\ \A m \in messages : m.at \in Nat
        /\ Exists => conversation.lastAt \in Nat
        /\ conversation'.lastAt \in Nat
    BY Known DEF Messages, Times, Conversations
  <2>2. messages # {} => Exists /\ \A m \in messages : m.at <= conversation.lastAt
    BY DEF InboxInv, MessagesInv, LastMessageIsLatest
  <2>3. \A m \in messages' : m.at <= conversation'.lastAt
    BY <2>1, <2>2
  <2>4. \E m \in messages' : m.id = conversation'.lastId /\ m.at = conversation'.lastAt
    BY DEF InboxInv, MessagesInv, LastMessageIsLatest
  <2> QED
    BY <2>3, <2>4 DEF LastMessageIsLatest
<1>7. CompletionsMissNothing'
  BY DEF CompletionsMissNothing
<1>8. messages' # {} /\ knownWhenDone' \in Counts
  BY DEF InboxInv, MessagesInv
<1> QED
  BY <1>1, <1>3, <1>4, <1>5, <1>6, <1>7, <1>8 DEF MessagesInv

(* There is room to count another message of the customer.                 *)
LEMMA CountStaysInRange ==
  ASSUME InboxInv, NEW new \in Messages, new.id \in FreeIds, new.moKey # None,
         \A m \in messages : m.moKey # new.moKey
  PROVE  Cardinality(Inbound) + 1 \in Counts
<1> DEFINE all == messages \union {new}
           f == [m \in all |-> m.id]
<1>1. f \in Injection(all, Ids)
  BY Known DEF Injection, IsInjective, OneMessagePerId, Messages, FreeIds
<1>2. IsFiniteSet(Ids) /\ Cardinality(Ids) = MaxMessages
  BY BoundsAssumption, FS_Interval DEF Ids
<1>3. IsFiniteSet(all) /\ Cardinality(all) <= MaxMessages
  BY <1>1, <1>2, FS_Injection
<1>4. Cardinality(Inbound \union {new}) <= Cardinality(all)
  <2>1. Inbound \union {new} \in SUBSET all
    BY DEF Inbound
  <2> QED
    BY <1>3, <2>1, FS_Subset
<1>5. new \notin Inbound
  BY DEF Inbound, FreeIds
<1>6. Cardinality(Inbound \union {new}) = Cardinality(Inbound) + 1
  BY <1>5, Known, FS_AddElement
<1>7. Cardinality(Inbound) \in Nat /\ Cardinality(all) \in Nat
  BY <1>3, Known, FS_CardinalityType
<1> QED
  BY <1>3, <1>4, <1>6, <1>7, BoundsAssumption DEF Counts

LEMMA StoreKeeps ==
  ASSUME InboxInv, NEW key \in MoKeys, NEW id \in FreeIds, NEW at \in Times,
         NEW canonical \in BOOLEAN, \A m \in messages : m.moKey # key,
         StoreNewMessage(key, id, at, canonical),
         UNCHANGED <<reads, assignees, active, request, knownWhenDone>>
  PROVE  InboxInv'
<1> USE BoundsAssumption, NoneAssumption
<1> DEFINE new == [id |-> id, moKey |-> key, at |-> at, canonical |-> canonical]
           before == IF Exists THEN conversation ELSE NewConversation("open")
<1>1. new \in Messages /\ new.id \in FreeIds /\ new.moKey # None /\ id \in Ids
  BY DEF Messages, FreeIds
<1>2. /\ before \in Conversations /\ before.inbound = IF Exists THEN conversation.inbound ELSE 0
      /\ before.inbound = Cardinality(Inbound)
  BY Known, FS_EmptySet DEF InboxInv, MessagesInv, NewConversation, Conversations, Statuses,
     Counts, Inbound
<1>3. before.inbound + 1 \in Counts
  BY <1>1, <1>2, CountStaysInRange
<1>4. conversation' = [before EXCEPT
          !.lastId  = IF Later(at, id, before) THEN id ELSE @,
          !.lastAt  = IF Later(at, id, before) THEN at ELSE @,
          !.inbound = @ + 1,
          !.status  = IF @ = "done" THEN "open" ELSE @,
          !.version = @ + 1]
  BY DEF StoreNewMessage
<1>5. /\ conversation' \in Conversations
      /\ conversation'.lastId = IF Later(at, id, before) THEN id ELSE before.lastId
      /\ conversation'.lastAt = IF Later(at, id, before) THEN at ELSE before.lastAt
      /\ conversation'.inbound = before.inbound + 1
      /\ conversation'.status # "done"
      /\ conversation'.version = before.version + 1
  <2> HIDE DEF before
  <2> DEFINE lastId == IF Later(at, id, before) THEN id ELSE before.lastId
             lastAt == IF Later(at, id, before) THEN at ELSE before.lastAt
             status == IF before.status = "done" THEN "open" ELSE before.status
  <2>1. conversation' = [before EXCEPT !.lastId = lastId, !.lastAt = lastAt,
                                       !.inbound = before.inbound + 1, !.status = status,
                                       !.version = before.version + 1]
    BY <1>4
  <2>2. /\ lastId \in Ids \union {None} /\ lastAt \in 0 .. MaxTime
        /\ status \in Statuses /\ status # "done"
    BY <1>1, <1>2 DEF Conversations, Statuses, Times
  <2>3. before.version + 1 \in Nat
    BY <1>2 DEF Conversations
  <2> HIDE DEF lastId, lastAt, status
  <2>4. /\ conversation' \in Conversations
        /\ conversation'.lastId = lastId /\ conversation'.lastAt = lastAt
        /\ conversation'.inbound = before.inbound + 1 /\ conversation'.status = status
        /\ conversation'.version = before.version + 1
    BY <1>2, <1>3, <2>1, <2>2, <2>3 DEF Conversations
  <2> QED
    BY <2>2, <2>4 DEF lastId, lastAt
<1>6. before.lastAt \in Nat /\ before.version \in Nat /\ at \in Nat
  BY <1>2 DEF Conversations, Times
<1>7. \/ /\ conversation'.lastId = new.id /\ conversation'.lastAt = new.at
         /\ Exists => new.at >= conversation.lastAt
      \/ /\ Exists /\ messages # {}
         /\ conversation'.lastId = conversation.lastId
         /\ conversation'.lastAt = conversation.lastAt
         /\ new.at <= conversation.lastAt
  <2>1. CASE Later(at, id, before)
    <3>1. Exists => at >= conversation.lastAt
      <4>1. Exists /\ messages # {} => conversation.lastId \in Ids
        BY Known DEF InboxInv, MessagesInv, LastMessageIsLatest, Messages
      <4>2. Exists /\ messages = {} => conversation.lastAt = 0
        BY DEF InboxInv, MessagesInv
      <4> QED
        BY <1>6, <2>1, <4>1, <4>2 DEF Later
    <3> QED
      BY <1>5, <2>1, <3>1
  <2>2. CASE ~Later(at, id, before)
    <3>1. before.lastId # None /\ at <= before.lastAt
      BY <1>6, <2>2 DEF Later
    <3>2. Exists /\ messages # {}
      BY <3>1 DEF InboxInv, MessagesInv, NewConversation
    <3> QED
      BY <1>5, <2>2, <3>1, <3>2
  <2> QED
    BY <2>1, <2>2
<1>8. messages' = messages \union {new}
  BY DEF StoreNewMessage
<1>9. /\ conversation'.inbound =
           (IF Exists THEN conversation.inbound ELSE 0) + (IF new.moKey # None THEN 1 ELSE 0)
      /\ new.moKey # None => \A m \in messages : m.moKey # new.moKey
  BY <1>1, <1>2, <1>5
<1>10. RowRises
  BY <1>2, <1>5, <1>6, Known DEF RowRises, Conversations
<1> HIDE DEF new, before
<1>11. MessagesInv'
  BY <1>1, <1>5, <1>7, <1>8, <1>9, MessageAdded
<1>12. RequestsInv'
  BY <1>10, RequestsSurvive DEF InboxInv, RequestsInv
<1> QED
  BY <1>11, <1>12 DEF InboxInv, MembersInv

(* The time of a message is corrected: the row follows the newest.         *)
LEMMA CorrectTimeKeeps ==
  ASSUME InboxInv, NEW m \in messages, NEW at \in Times, CorrectTime(m, at),
         UNCHANGED <<reads, assignees, active, request, knownWhenDone>>
  PROVE  InboxInv'
<1> USE BoundsAssumption, NoneAssumption
<1> DEFINE new == [m EXCEPT !.at = at, !.canonical = TRUE]
           corrected == (messages \ {m}) \union {new}
<1>0. /\ Exists /\ conversation \in Conversations /\ messages \subseteq Messages
      /\ conversation.version \in Nat /\ conversation.lastAt \in Nat
  BY Known DEF InboxInv, MessagesInv
<1>1. new \in Messages /\ new.id = m.id /\ new.moKey = m.moKey /\ messages' = corrected
  BY <1>0 DEF Messages, CorrectTime
<1> HIDE DEF new
<1>2. OneMessagePerId' /\ messages' \subseteq Messages /\ messages' # {}
  BY <1>0, <1>1 DEF InboxInv, MessagesInv, OneMessagePerId
<1>3. Inbound' = IF m.moKey # None THEN (Inbound \ {m}) \union {new} ELSE Inbound
  BY <1>1 DEF Inbound
<1>4. OneMessagePerKey'
  BY <1>1, <1>3 DEF InboxInv, MessagesInv, OneMessagePerKey, Inbound
<1>5. Cardinality(Inbound)' = Cardinality(Inbound)
  <2>1. CASE m.moKey # None
    <3>1. m \in Inbound /\ new \notin Inbound \ {m}
      BY <1>1, <2>1 DEF InboxInv, MessagesInv, OneMessagePerId, Inbound
    <3>2. IsFiniteSet(Inbound \ {m}) /\ Cardinality(Inbound \ {m}) = Cardinality(Inbound) - 1
      BY <3>1, Known, FS_RemoveElement
    <3>3. Cardinality((Inbound \ {m}) \union {new}) = Cardinality(Inbound \ {m}) + 1
      BY <3>1, <3>2, FS_AddElement
    <3>4. Cardinality(Inbound) \in Nat
      BY Known, FS_CardinalityType
    <3> QED
      BY <1>3, <2>1, <3>2, <3>3, <3>4
  <2>2. CASE m.moKey = None
    BY <1>3, <2>2
  <2> QED
    BY <2>1, <2>2
<1>6. PICK newest \in messages' :
        /\ Newest(newest, messages')
        /\ conversation' =
             IF conversation.lastId = newest.id /\ conversation.lastAt = newest.at
             THEN conversation
             ELSE [conversation EXCEPT !.lastId = newest.id, !.lastAt = newest.at,
                                       !.version = @ + 1]
  BY DEF CorrectTime
<1>7. /\ conversation' \in Conversations
      /\ conversation'.lastId = newest.id /\ conversation'.lastAt = newest.at
      /\ conversation'.inbound = conversation.inbound
      /\ conversation'.status = conversation.status
      /\ conversation'.version \in {conversation.version, conversation.version + 1}
  <2>1. newest.id \in Ids /\ newest.at \in 0 .. MaxTime
    BY <1>2 DEF Messages, Times
  <2>2. conversation.version + 1 \in Nat
    BY <1>0
  <2>3. CASE conversation.lastId = newest.id /\ conversation.lastAt = newest.at
    BY <1>0, <1>6, <2>3
  <2>4. CASE ~(conversation.lastId = newest.id /\ conversation.lastAt = newest.at)
    <3>1. conversation' = [conversation EXCEPT !.lastId = newest.id, !.lastAt = newest.at,
                                               !.version = conversation.version + 1]
      BY <1>6, <2>4
    <3> QED
      BY <1>0, <2>1, <2>2, <3>1 DEF Conversations
  <2> QED
    BY <2>3, <2>4
<1>8. LastMessageIsLatest'
  <2>1. \A n \in messages' : n.at \in Nat
    BY <1>2 DEF Messages, Times
  <2> QED
    BY <1>6, <1>7, <2>1 DEF LastMessageIsLatest, Newest
<1>9. MessagesInv'
  BY <1>0, <1>2, <1>4, <1>5, <1>7, <1>8
  DEF InboxInv, MessagesInv, Exists, CompletionsMissNothing
<1>10. RowRises
  BY <1>0, <1>7, Known DEF RowRises
<1>11. RequestsInv'
  BY <1>10, RequestsSurvive DEF InboxInv, RequestsInv
<1> QED
  BY <1>9, <1>11 DEF InboxInv, MembersInv

-----------------------------------------------------------------------------
(* Requests of members.                                                    *)
LEMMA RequireSessionKeeps ==
  ASSUME InboxInv, NEW q \in Requests, NEW m \in Writers, NEW kind \in Kinds,
         RequireSession(q, m, kind)
  PROVE  InboxInv'
<1> USE BoundsAssumption
<1>1. PICK target \in (IF kind \in {"assign", "unassign"} THEN Members ELSE {None}),
           status \in (IF kind = "patch" THEN PatchStatuses ELSE {None}) :
        request' = [request EXCEPT ![q] =
         [pc |-> "checked", kind |-> kind, by |-> m, target |-> target, status |-> status,
          version |-> IF kind = "patch" THEN conversation.version ELSE 0,
          count |-> IF kind = "patch" THEN conversation.inbound ELSE 0]]
  BY DEF RequireSession
<1> DEFINE version == IF kind = "patch" THEN conversation.version ELSE 0
           count == IF kind = "patch" THEN conversation.inbound ELSE 0
           r == [pc |-> "checked", kind |-> kind, by |-> m, target |-> target,
                 status |-> status, version |-> version, count |-> count]
<1>2. kind # "start" => Exists
  BY DEF RequireSession
<1>3. version \in Nat /\ count \in Counts
  BY <1>2, Known DEF Counts
<1>4. target \in Members \union {None} /\ status \in Statuses \union {None}
      /\ (kind = "patch" => status \in Statuses)
      /\ (kind \in {"assign", "unassign"} => target \in Members)
  BY DEF Statuses
<1>5. r \in RequestStates
  <2> HIDE DEF version, count
  <2> QED
    BY <1>3, <1>4 DEF RequestStates
<1>6. RequestOK(r)
  BY <1>2, <1>3, <1>4, <1>5 DEF RequestOK
<1>7. request' \in [Requests -> RequestStates]
      /\ \A p \in Requests : request'[p] = request[p] \/ RequestOK(request'[p])
  <2> HIDE DEF r
  <2>1. request' = [request EXCEPT ![q] = r]
    BY <1>1 DEF r
  <2> QED
    BY <1>5, <1>6, <2>1 DEF InboxInv, RequestsInv
<1>8. UNCHANGED <<messages, conversation, reads, assignees, active, knownWhenDone>>
  BY DEF RequireSession
<1> QED
  BY <1>7, <1>8, RowStays DEF InboxInv, MembersInv

LEMMA StartKeeps ==
  ASSUME InboxInv, NEW q \in Requests, StartConversation(q)
  PROVE  InboxInv'
<1> USE BoundsAssumption, NoneAssumption
<1>0. UNCHANGED <<messages, reads, active, knownWhenDone>> /\ Answer(q)
  BY DEF StartConversation
<1>1. CASE Exists
  <2>1. UNCHANGED <<conversation, assignees>>
    BY <1>1 DEF StartConversation
  <2> QED
    BY <1>0, <2>1, AnsweredIsOK, RowStays DEF InboxInv, MembersInv
<1>2. CASE ~Exists
  <2>1. conversation' = NewConversation("handling") /\ assignees' = {request[q].by}
    BY <1>2 DEF StartConversation
  <2>2. /\ conversation' \in Conversations
        /\ conversation'.lastId = None /\ conversation'.lastAt = 0
        /\ conversation'.inbound = 0 /\ conversation'.status = "handling"
    BY <2>1 DEF NewConversation, Conversations, Statuses, Counts
  <2>3. messages = {} /\ Exists' /\ Inbound' = {}
    BY <1>0, <1>2, <2>2, Known DEF Exists, Inbound
  <2>4. MessagesInv'
    BY <1>0, <2>2, <2>3, FS_EmptySet DEF InboxInv, MessagesInv, OneMessagePerId,
       OneMessagePerKey, LastMessageIsLatest, CompletionsMissNothing
  <2>5. RequestsInv'
    BY <1>0, <1>2, <2>2, AnsweredIsOK, RequestsSurvive DEF RowRises
  <2>6. MembersInv'
    <3>1. request[q].by \in Members
      BY Known DEF RequestOK, StartConversation, Checked
    <3> QED
      BY <1>0, <2>1, <3>1 DEF InboxInv, MembersInv
  <2> QED
    BY <2>4, <2>5, <2>6 DEF InboxInv
<1> QED
  BY <1>1, <1>2

LEMMA SendKeeps ==
  ASSUME InboxInv, NEW q \in Requests, NEW at \in Times, SendMessage(q, at)
  PROVE  InboxInv'
<1> USE BoundsAssumption, NoneAssumption
<1>0. /\ Answer(q) /\ UNCHANGED <<reads, active, knownWhenDone>>
      /\ Exists /\ request[q].by \in Members
      /\ conversation \in Conversations /\ conversation.lastAt \in Nat
  BY Known DEF SendMessage, Checked, RequestOK
<1>1. PICK id \in FreeIds :
        /\ messages' = messages \union
             {[id |-> id, moKey |-> None, at |-> at, canonical |-> TRUE]}
        /\ conversation' = [conversation EXCEPT
             !.status  = "handling",
             !.lastId  = IF at >= conversation.lastAt THEN id ELSE @,
             !.lastAt  = IF at >= conversation.lastAt THEN at ELSE @,
             !.version = @ + 1]
  BY DEF SendMessage
<1> DEFINE new == [id |-> id, moKey |-> None, at |-> at, canonical |-> TRUE]
           lastId == IF at >= conversation.lastAt THEN id ELSE conversation.lastId
           lastAt == IF at >= conversation.lastAt THEN at ELSE conversation.lastAt
<1>2. new \in Messages /\ new.id = id /\ new.at = at /\ new.moKey = None
  BY DEF Messages, FreeIds
<1>3. /\ conversation' \in Conversations
      /\ conversation'.lastId = lastId /\ conversation'.lastAt = lastAt
      /\ conversation'.inbound = conversation.inbound
      /\ conversation'.status = "handling"
      /\ conversation'.version = conversation.version + 1
  <2>1. lastId \in Ids \union {None} /\ lastAt \in 0 .. MaxTime
    BY <1>0 DEF FreeIds, Conversations, Times
  <2>2. conversation' = [conversation EXCEPT !.status = "handling", !.lastId = lastId,
                                             !.lastAt = lastAt,
                                             !.version = conversation.version + 1]
    BY <1>1
  <2>3. conversation.version + 1 \in Nat /\ "handling" \in Statuses
    BY <1>0 DEF Conversations, Statuses
  <2> HIDE DEF lastId, lastAt
  <2> QED
    BY <1>0, <2>1, <2>2, <2>3 DEF Conversations
<1>4. \/ /\ conversation'.lastId = new.id /\ conversation'.lastAt = new.at
         /\ Exists => new.at >= conversation.lastAt
      \/ /\ Exists /\ messages # {}
         /\ conversation'.lastId = conversation.lastId
         /\ conversation'.lastAt = conversation.lastAt
         /\ new.at <= conversation.lastAt
  <2>1. messages = {} => at >= conversation.lastAt
    BY <1>0 DEF InboxInv, MessagesInv, Times
  <2> QED
    BY <1>0, <1>2, <1>3, <2>1 DEF Times
<1>5. conversation'.inbound =
        (IF Exists THEN conversation.inbound ELSE 0) + (IF new.moKey # None THEN 1 ELSE 0)
  BY <1>0, <1>2, <1>3, Known
<1>6. messages' = messages \union {new}
  BY <1>1
<1> HIDE DEF new, lastId, lastAt
<1>7. MessagesInv'
  BY <1>0, <1>2, <1>3, <1>4, <1>5, <1>6, MessageAdded
<1>8. RequestsInv'
  BY <1>0, <1>3, Known, AnsweredIsOK, RequestsSurvive DEF RowRises
<1>9. MembersInv'
  BY <1>0 DEF SendMessage, InboxInv, MembersInv
<1> QED
  BY <1>7, <1>8, <1>9 DEF InboxInv

LEMMA PatchKeeps ==
  ASSUME InboxInv, NEW q \in Requests, PatchConversation(q)
  PROVE  InboxInv'
<1> USE BoundsAssumption, NoneAssumption
<1> DEFINE r == request[q]
<1>0. Answer(q) /\ UNCHANGED <<messages, reads, assignees, active>>
  BY DEF PatchConversation
<1>1. CASE UNCHANGED <<conversation, knownWhenDone>>
  BY <1>0, <1>1, AnsweredIsOK, RowStays DEF InboxInv, MembersInv
<1>2. CASE /\ r.version = conversation.version
           /\ conversation' = [conversation EXCEPT !.status = r.status, !.version = @ + 1]
           /\ knownWhenDone' = IF r.status = "done" THEN r.count ELSE knownWhenDone
  <2>1. /\ Exists /\ conversation \in Conversations /\ conversation.version \in Nat
        /\ r.status \in Statuses /\ r.count = conversation.inbound
    BY <1>2, Known DEF PatchConversation, Checked, RequestOK
  <2>2. /\ conversation' \in Conversations
        /\ conversation'.lastId = conversation.lastId
        /\ conversation'.lastAt = conversation.lastAt
        /\ conversation'.inbound = conversation.inbound
        /\ conversation'.status = r.status
        /\ conversation'.version = conversation.version + 1
    <3>1. conversation' = [conversation EXCEPT !.status = r.status,
                                               !.version = conversation.version + 1]
      BY <1>2
    <3>2. conversation.version + 1 \in Nat
      BY <2>1
    <3> HIDE DEF r
    <3> QED
      BY <2>1, <3>1, <3>2 DEF Conversations
  <2>3. knownWhenDone' \in Counts
    BY <1>2, <2>1, Known DEF InboxInv, MessagesInv
  <2>4. Inbound' = Inbound /\ Exists'
    BY <1>0, <2>2 DEF Inbound, Exists
  <2>5. MessagesInv'
    BY <1>0, <1>2, <2>1, <2>2, <2>3, <2>4 DEF InboxInv, MessagesInv, OneMessagePerId,
       OneMessagePerKey, LastMessageIsLatest, CompletionsMissNothing
  <2>6. RequestsInv'
    BY <1>0, <2>1, <2>2, Known, AnsweredIsOK, RequestsSurvive DEF RowRises
  <2> QED
    BY <1>0, <2>5, <2>6 DEF InboxInv, MembersInv
<1> QED
  BY <1>1, <1>2 DEF PatchConversation

LEMMA ReadKeeps ==
  ASSUME InboxInv, NEW q \in Requests, CountInbound(q) \/ MarkRead(q)
  PROVE  InboxInv'
<1>1. CASE CountInbound(q)
  <2> DEFINE r == [request[q] EXCEPT !.pc = "counted", !.count = conversation.inbound]
  <2>1. /\ Exists /\ conversation.inbound \in Counts
        /\ request[q] \in RequestStates /\ RequestOK(request[q]) /\ request[q].kind = "read"
        /\ request[q].pc = "checked"
    BY <1>1, Known DEF CountInbound, Checked, RequestOK
  <2>2. /\ r \in RequestStates /\ r.pc = "counted" /\ r.count = conversation.inbound
        /\ r.kind = "read" /\ r.by = request[q].by
    BY <2>1 DEF RequestStates
  <2>3. request' = [request EXCEPT ![q] = r]
    BY <1>1 DEF CountInbound
  <2> HIDE DEF r
  <2>4. RequestOK(r)
    BY <2>1, <2>2, Known DEF RequestOK
  <2>5. request' \in [Requests -> RequestStates]
        /\ \A p \in Requests : request'[p] = request[p] \/ RequestOK(request'[p])
    BY <2>2, <2>3, <2>4 DEF InboxInv, RequestsInv
  <2> QED
    BY <1>1, <2>5, RowStays DEF CountInbound, InboxInv, MembersInv
<1>2. CASE MarkRead(q)
  <2>1. request[q].count \in Counts
    BY Known
  <2>2. reads' \in [Members -> Counts]
    BY <1>2, <2>1 DEF MarkRead, InboxInv, MembersInv
  <2> QED
    BY <1>2, <2>2, AnsweredIsOK, RowStays DEF MarkRead, InboxInv, MembersInv
<1> QED
  BY <1>1, <1>2

LEMMA AssigneesKeep ==
  ASSUME InboxInv, NEW q \in Requests,
         AssignConversation(q) \/ UnassignConversation(q) \/ RequestDies(q)
  PROVE  InboxInv'
<1>1. /\ Answer(q) /\ UNCHANGED <<messages, conversation, reads, active, knownWhenDone>>
      /\ assignees' \subseteq Members
  BY Known DEF AssignConversation, UnassignConversation, RequestDies, InboxInv, MembersInv,
     Checked, RequestOK
<1> QED
  BY <1>1, AnsweredIsOK, RowStays DEF InboxInv, MembersInv

LEMMA StatusKeeps ==
  ASSUME InboxInv, NEW m \in Members, DeactivateMember(m) \/ ReactivateMember(m)
  PROVE  InboxInv'
<1>1. /\ UNCHANGED <<messages, conversation, reads, request, knownWhenDone>>
      /\ assignees' \subseteq Members /\ active' \subseteq Members
  BY DEF DeactivateMember, ReactivateMember, InboxInv, MembersInv
<1> QED
  BY <1>1, RowStays DEF InboxInv, RequestsInv, MembersInv

LEMMA ReceiveKeeps ==
  ASSUME InboxInv, NEW key \in MoKeys, NEW at \in Times, NEW canonical \in BOOLEAN,
         ReceiveMessage(key, at, canonical)
  PROVE  InboxInv'
BY StoreKeeps, CorrectTimeKeeps DEF ReceiveMessage

LEMMA StepInboxInv == InboxInv /\ [Next]_vars => InboxInv'
<1> SUFFICES ASSUME InboxInv, [Next]_vars PROVE InboxInv'
  OBVIOUS
<1>1. CASE UNCHANGED vars
  BY <1>1, RowStays DEF vars, InboxInv, RequestsInv, MembersInv
<1> QED
  BY <1>1, ReceiveKeeps, RequireSessionKeeps, StartKeeps, SendKeeps, PatchKeeps, ReadKeeps,
     AssigneesKeep, StatusKeeps DEF Next

-----------------------------------------------------------------------------
THEOREM InboxInvariant == Spec => []InboxInv
<1> QED
  BY InitInboxInv, StepInboxInv, PTL DEF Spec

(* The variables stay in their types; with the bound on messages, so do    *)
(* the counts.                                                             *)
THEOREM TypeCorrect == Spec => []TypeOK
<1>1. InboxInv => TypeOK
  BY DEF InboxInv, MessagesInv, RequestsInv, MembersInv, TypeOK
<1> QED
  BY <1>1, InboxInvariant, PTL

(* The row names the latest message (last_message_id, last_message_at).    *)
THEOREM LastMessageIsExact == Spec => []LastMessageIsLatest
<1>1. InboxInv => LastMessageIsLatest
  BY DEF InboxInv, MessagesInv
<1> QED
  BY <1>1, InboxInvariant, PTL

(* inbound_count counts each message of the customer once.                 *)
THEOREM CountIsExact == Spec => []InboundCountIsExact
<1>1. InboxInv => InboundCountIsExact
  BY KeysAreCounted DEF InboxInv, MessagesInv, InboundCountIsExact
<1> QED
  BY <1>1, InboxInvariant, PTL

(* Who completes a conversation has been told of all its messages          *)
(* (the version of patchConversation, the reopening of a new message).     *)
THEOREM NothingIsMissed == Spec => []CompletionsMissNothing
<1>1. InboxInv => CompletionsMissNothing
  BY DEF InboxInv, MessagesInv
<1> QED
  BY <1>1, InboxInvariant, PTL

(* Read cursors stay within the messages there are: messages are only      *)
(* added, or keep their number when a time is corrected.                   *)
ReadsWithin == \A m \in Members : reads[m] <= Cardinality(Inbound)

InboundIsCounted == IsFiniteSet(Inbound) /\ Cardinality(Inbound) \in Nat

LEMMA InboundIsFinite == InboxInv => InboundIsCounted
BY MessagesAreFinite DEF InboxInv, MessagesInv, InboundIsCounted

LEMMA InboundStaysFinite == InboxInv' => InboundIsCounted'
BY InboundIsFinite, PTL

LEMMA MessagesOnlyGrow ==
  ASSUME InboxInv, InboxInv', [Next]_vars
  PROVE  Cardinality(Inbound) \in Nat /\ Cardinality(Inbound') \in Nat
         /\ Cardinality(Inbound) <= Cardinality(Inbound')
<1>1. /\ IsFiniteSet(Inbound) /\ IsFiniteSet(Inbound')
      /\ Cardinality(Inbound) \in Nat /\ Cardinality(Inbound') \in Nat
  BY InboundIsFinite, InboundStaysFinite DEF InboundIsCounted
<1>2. CASE messages \subseteq messages'
  <2>1. Inbound \subseteq Inbound'
    BY <1>2 DEF Inbound
  <2> QED
    BY <1>1, <2>1, FS_Subset
<1>3. ASSUME NEW m \in messages, NEW at \in Times, CorrectTime(m, at)
      PROVE  Cardinality(Inbound) = Cardinality(Inbound')
  <2>1. Exists /\ Exists' /\ conversation'.inbound = conversation.inbound
    BY <1>3, Known DEF CorrectTime, Exists, Conversations, InboxInv, MessagesInv
  <2> QED
    BY <2>1 DEF InboxInv, MessagesInv
<1>4. ASSUME NEW key \in MoKeys, NEW at \in Times, NEW canonical \in BOOLEAN,
             ReceiveMessage(key, at, canonical)
      PROVE  Cardinality(Inbound) <= Cardinality(Inbound')
  <2>1. CASE \E id \in FreeIds : StoreNewMessage(key, id, at, canonical)
    BY <1>2, <2>1 DEF StoreNewMessage
  <2>2. CASE \E m \in messages : CorrectTime(m, at)
    BY <1>1, <1>3, <2>2
  <2> QED
    BY <1>4, <2>1, <2>2 DEF ReceiveMessage
<1>5. ASSUME NEW q \in Requests, NEW at \in Times, SendMessage(q, at)
      PROVE  messages \subseteq messages'
  BY <1>5 DEF SendMessage
<1> QED
  BY <1>1, <1>2, <1>4, <1>5 DEF Next, vars, RequireSession, StartConversation,
     PatchConversation, CountInbound, MarkRead, AssignConversation, UnassignConversation,
     RequestDies, DeactivateMember, ReactivateMember

(* One step of a read cursor.                                              *)
LEMMA ReadsStep ==
  ASSUME InboxInv, InboxInv', [Next]_vars, ReadsWithin
  PROVE  \A m \in Members : reads'[m] >= reads[m] /\ reads'[m] <= Cardinality(Inbound')
<1>0. /\ \A m \in Members : reads[m] \in Nat
      /\ Cardinality(Inbound) \in Nat /\ Cardinality(Inbound') \in Nat
      /\ Cardinality(Inbound) <= Cardinality(Inbound')
  BY MessagesOnlyGrow, BoundsAssumption DEF InboxInv, MembersInv, Counts
<1>1. CASE UNCHANGED reads
  BY <1>0, <1>1 DEF ReadsWithin
<1>2. ASSUME NEW q \in Requests, MarkRead(q)
      PROVE  \A m \in Members : reads'[m] >= reads[m] /\ reads'[m] <= Cardinality(Inbound')
  <2>1. Exists /\ request[q].count <= conversation.inbound /\ request[q].count \in Nat
        /\ request[q].by \in Members
    BY <1>2, Known DEF MarkRead, RequestOK
  <2>2. conversation.inbound = Cardinality(Inbound)
    BY <2>1 DEF InboxInv, MessagesInv
  <2>3. reads' = [reads EXCEPT ![request[q].by] =
                    IF request[q].count > reads[request[q].by] THEN request[q].count
                    ELSE reads[request[q].by]]
    BY <1>2 DEF MarkRead
  <2>4. \A m \in Members : \/ reads'[m] = reads[m]
                           \/ reads'[m] = request[q].count /\ reads'[m] > reads[m]
    BY <2>1, <2>3 DEF InboxInv, MembersInv
  <2> QED
    BY <1>0, <2>1, <2>2, <2>4 DEF ReadsWithin
<1> QED
  BY <1>1, <1>2 DEF Next, vars, ReceiveMessage, RequireSession, StartConversation,
     SendMessage, PatchConversation, CountInbound, AssignConversation, UnassignConversation,
     RequestDies, DeactivateMember, ReactivateMember

(* Read cursors never go back and stay within the messages there are       *)
(* (the clamp and the monotonic upsert of markRead).                       *)
THEOREM CursorsFollow == Spec => ReadsFollowMessages
<1>1. Init => ReadsWithin
  BY FS_EmptySet DEF Init, ReadsWithin, Inbound
<1>2. InboxInv /\ InboxInv' /\ ReadsWithin /\ [Next]_vars => ReadsWithin'
  BY ReadsStep DEF ReadsWithin
<1>3. InboxInv /\ InboxInv' /\ ReadsWithin /\ [Next]_vars =>
        [\A m \in Members :
           /\ reads'[m] >= reads[m]
           /\ reads'[m] <= Cardinality(Inbound')]_reads
  BY ReadsStep
<1> QED
  BY <1>1, <1>2, <1>3, InboxInvariant, PTL DEF Spec, ReadsFollowMessages
=============================================================================
