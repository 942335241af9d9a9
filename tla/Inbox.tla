-------------------------------- MODULE Inbox --------------------------------
(***************************************************************************)
(* The row of one conversation and what hangs on it: messages, read        *)
(* cursors and assignees.  Four paths write it: storeInboundMessage, which *)
(* every carrier webhook calls (worker/inbound-message.ts), the creation   *)
(* batch of a send and of a new conversation, the PATCH, read and assignee *)
(* handlers, and the deactivation of a member (worker/routes).             *)
(*                                                                         *)
(* A handler first resolves the session of its caller, then runs its       *)
(* batch: two awaits, so two steps, between which anything may happen.     *)
(* Conversations are never deleted, and a browser knows only those there   *)
(* are.                                                                    *)
(*                                                                         *)
(* Conversation statuses: "open" is the code's 미처리, "handling" 처리중,  *)
(* "done" 완료.  Archiving and labels travel with the status in a PATCH    *)
(* and behave as it does; they are left out.                               *)
(***************************************************************************)
EXTENDS Naturals, FiniteSets

CONSTANTS
  Members,      \* users of the office
  Writers,      \* bound: the members who make requests
  PatchStatuses,\* bound: statuses a PATCH sets
  Requests,     \* HTTP requests of members that may be in flight
  MoKeys,       \* idempotency keys of the customer's messages
  MmsKeys,      \* those of gateway MMS, whose redelivery may correct the time
  MaxMessages,  \* bound: messages of the conversation
  MaxTime,      \* bound: distinct times
  MaxVersion,   \* bound: version a PATCH may still raise
  None

ASSUME BoundsAssumption ==
  /\ Writers \subseteq Members
  /\ PatchStatuses \subseteq {"open", "handling", "done"}
  /\ MmsKeys \subseteq MoKeys
  /\ MaxMessages \in Nat /\ MaxTime \in Nat /\ MaxVersion \in Nat
  /\ None \notin Members \union MoKeys

VARIABLES
  messages,      \* rows of messages
  conversation,  \* the row of conversations, None before there is one
  reads,         \* conversation_reads.read_inbound_count, 0 without a row
  assignees,     \* conversation_assignees
  active,        \* members whose status is 활성
  request,       \* local state of each request
  knownWhenDone  \* history: inbound messages the member who last completed
                 \* the conversation had been told of

vars == <<messages, conversation, reads, assignees, active, request, knownWhenDone>>

(* Message ids are ULIDs made before the batch, by isolates with clocks of *)
(* their own: they order like numbers, but not in the order of commits.    *)
Ids == 1 .. MaxMessages
Times == 1 .. MaxTime
Counts == 0 .. MaxMessages
Statuses == {"open", "handling", "done"}

Messages == [id : Ids, moKey : MoKeys \union {None}, at : Times, canonical : BOOLEAN]
Conversations == [status : Statuses, lastId : Ids \union {None}, lastAt : 0 .. MaxTime,
                  inbound : Counts, version : Nat]
Kinds == {"start", "send", "patch", "read", "assign", "unassign"}
RequestStates == [pc : {"idle", "checked", "counted"},
                  kind : Kinds \union {None},
                  by : Members \union {None},
                  target : Members \union {None},  \* of assign and unassign
                  status : Statuses \union {None}, \* of a patch
                  version : Nat,                   \* of a patch
                  count : Counts]  \* a patch: inbound messages its sender was told
                                   \* of; a read: inbound_count as it was read

NoRequest == [pc |-> "idle", kind |-> None, by |-> None, target |-> None,
              status |-> None, version |-> 0, count |-> 0]

ASSUME NoneAssumption == None \notin Ids /\ None \notin Conversations

TypeOK ==
  /\ messages \subseteq Messages
  /\ conversation \in Conversations \union {None}
  /\ reads \in [Members -> Counts]
  /\ assignees \subseteq Members
  /\ active \subseteq Members
  /\ request \in [Requests -> RequestStates]
  /\ knownWhenDone \in Counts

Init ==
  /\ messages = {}
  /\ conversation = None
  /\ reads = [m \in Members |-> 0]
  /\ assignees = {}
  /\ active = Members
  /\ request = [q \in Requests |-> NoRequest]
  /\ knownWhenDone = 0

Exists == conversation # None
Inbound == {m \in messages : m.moKey # None}
FreeIds == Ids \ {m.id : m \in messages}

-----------------------------------------------------------------------------
(***************************************************************************)
(* storeInboundMessage.                                                    *)
(***************************************************************************)
NewConversation(status) ==
  [status |-> status, lastId |-> None, lastAt |-> 0, inbound |-> 0, version |-> 1]

Later(at, id, c) ==
  c.lastId = None \/ at > c.lastAt \/ (at = c.lastAt /\ id > c.lastId)

(* Mutant: a message of the customer does not count as a change of the row. *)
StoreNewMessageKeepingVersion(key, id, at, canonical) ==
  LET before == IF Exists THEN conversation ELSE NewConversation("open")
  IN /\ messages' = messages \union
          {[id |-> id, moKey |-> key, at |-> at, canonical |-> canonical]}
     /\ conversation' = [before EXCEPT
          !.lastId  = IF Later(at, id, before) THEN id ELSE @,
          !.lastAt  = IF Later(at, id, before) THEN at ELSE @,
          !.inbound = @ + 1,
          !.status  = IF @ = "done" THEN "open" ELSE @]

(* The batch for a message that is not stored yet: it makes the            *)
(* conversation if there is none and reopens it if it was completed.       *)
StoreNewMessage(key, id, at, canonical) ==
  LET before == IF Exists THEN conversation ELSE NewConversation("open")
  IN /\ messages' = messages \union
          {[id |-> id, moKey |-> key, at |-> at, canonical |-> canonical]}
     /\ conversation' = [before EXCEPT
          !.lastId  = IF Later(at, id, before) THEN id ELSE @,
          !.lastAt  = IF Later(at, id, before) THEN at ELSE @,
          !.inbound = @ + 1,
          !.status  = IF @ = "done" THEN "open" ELSE @,
          !.version = @ + 1]

Newest(m, ms) == \A n \in ms : n.at < m.at \/ (n.at = m.at /\ n.id <= m.id)

(* Mutant: a corrected time only ever moves the conversation forward. *)
CorrectTimeForward(m, at) ==
  /\ messages' = (messages \ {m}) \union {[m EXCEPT !.at = at, !.canonical = TRUE]}
  /\ conversation' = IF Later(at, m.id, conversation)
                     THEN [conversation EXCEPT !.lastId = m.id, !.lastAt = at,
                                               !.version = @ + 1]
                     ELSE conversation

(* The batch for a gateway MMS delivered again with a time of its own: it  *)
(* replaces the time of reception, and the newest message is looked for    *)
(* again.                                                                  *)
CorrectTime(m, at) ==
  LET corrected == (messages \ {m}) \union {[m EXCEPT !.at = at, !.canonical = TRUE]}
  IN /\ messages' = corrected
     /\ \E newest \in corrected :
          /\ Newest(newest, corrected)
          /\ conversation' =
               IF conversation.lastId = newest.id /\ conversation.lastAt = newest.at
               THEN conversation
               ELSE [conversation EXCEPT !.lastId = newest.id, !.lastAt = newest.at,
                                         !.version = @ + 1]

(* Mutant: the key of a stored message is not looked for. *)
ReceiveMessageAgain(key, at, canonical) ==
  /\ canonical \/ key \in MmsKeys
  /\ \E id \in FreeIds : StoreNewMessage(key, id, at, canonical)
  /\ UNCHANGED <<reads, assignees, active, request, knownWhenDone>>

(* Only an MMS may lack a time of its own.  Any other redelivery changes   *)
(* nothing here, nor does one whose content fingerprint another delivery   *)
(* has overtaken.                                                          *)
ReceiveMessage(key, at, canonical) ==
  /\ canonical \/ key \in MmsKeys
  /\ \/ /\ \A m \in messages : m.moKey # key
        /\ \E id \in FreeIds : StoreNewMessage(key, id, at, canonical)
     \/ /\ canonical
        /\ \E m \in messages : m.moKey = key /\ ~m.canonical /\ CorrectTime(m, at)
  /\ UNCHANGED <<reads, assignees, active, request, knownWhenDone>>

-----------------------------------------------------------------------------
(***************************************************************************)
(* Requests of members.                                                    *)
(***************************************************************************)
(* requireSession lets a request of an active member in.  A PATCH names the *)
(* version its sender knew, from the list or from the answer to an earlier *)
(* PATCH, and with it the messages that had come in by then; time a        *)
(* request spends under way before requireSession is time it spends after. *)
RequireSession(q, m, kind) ==
  /\ request[q].pc = "idle"
  /\ m \in active
  /\ Exists \/ kind = "start"
  /\ \E target \in IF kind \in {"assign", "unassign"} THEN Members ELSE {None} :
     \E status \in IF kind = "patch" THEN PatchStatuses ELSE {None} :
       request' = [request EXCEPT ![q] =
         [pc |-> "checked", kind |-> kind, by |-> m, target |-> target, status |-> status,
          version |-> IF kind = "patch" THEN conversation.version ELSE 0,
          count |-> IF kind = "patch" THEN conversation.inbound ELSE 0]]
  /\ UNCHANGED <<messages, conversation, reads, assignees, active, knownWhenDone>>

Checked(q, kind) == request[q].pc = "checked" /\ request[q].kind = kind

Answer(q) == request' = [request EXCEPT ![q] = NoRequest]

(* startConversation: a conversation that exists is left alone. *)
StartConversation(q) ==
  /\ Checked(q, "start")
  /\ Answer(q)
  /\ IF Exists
     THEN UNCHANGED <<conversation, assignees>>
     ELSE /\ conversation' = NewConversation("handling")
          /\ assignees' = {request[q].by}
  /\ UNCHANGED <<messages, reads, active, knownWhenDone>>

(* createStatements: the sender takes an unassigned conversation on. *)
SendMessage(q, at) ==
  /\ Checked(q, "send")
  /\ Answer(q)
  /\ \E id \in FreeIds :
       /\ messages' = messages \union
            {[id |-> id, moKey |-> None, at |-> at, canonical |-> TRUE]}
       /\ conversation' = [conversation EXCEPT
            !.status  = "handling",
            !.lastId  = IF at >= conversation.lastAt THEN id ELSE @,
            !.lastAt  = IF at >= conversation.lastAt THEN at ELSE @,
            !.version = @ + 1]
  /\ assignees' = IF assignees = {} THEN {request[q].by} ELSE assignees
  /\ UNCHANGED <<reads, active, knownWhenDone>>

(* patchConversation: the version must still be the one the sender knew,   *)
(* else the answer is a 409 with the current row.                          *)
PatchConversation(q) ==
  LET r == request[q]
  IN /\ Checked(q, "patch")
     /\ Answer(q)
     /\ IF r.version = conversation.version
        THEN /\ r.version < MaxVersion
             /\ conversation' = [conversation EXCEPT !.status = r.status, !.version = @ + 1]
             /\ knownWhenDone' = IF r.status = "done" THEN r.count ELSE knownWhenDone
        ELSE UNCHANGED <<conversation, knownWhenDone>>
     /\ UNCHANGED <<messages, reads, assignees, active>>

(* Mutant: the cursor is set one past the messages there are. *)
CountInboundOffByOne(q) ==
  /\ Checked(q, "read")
  /\ request' = [request EXCEPT ![q] =
       [request[q] EXCEPT !.pc = "counted", !.count = conversation.inbound + 1]]
  /\ UNCHANGED <<messages, conversation, reads, assignees, active, knownWhenDone>>

(* The read handler clamps the cursor to inbound_count ...                 *)
CountInbound(q) ==
  /\ Checked(q, "read")
  /\ request' = [request EXCEPT ![q] =
       [request[q] EXCEPT !.pc = "counted", !.count = conversation.inbound]]
  /\ UNCHANGED <<messages, conversation, reads, assignees, active, knownWhenDone>>

(* Mutant: the cursor is set to the count, whatever it was. *)
MarkReadBlindly(q) ==
  LET r == request[q]
  IN /\ r.pc = "counted"
     /\ Answer(q)
     /\ reads' = [reads EXCEPT ![r.by] = r.count]
     /\ UNCHANGED <<messages, conversation, assignees, active, knownWhenDone>>

(* ... and, a step later, only ever raises it. *)
MarkRead(q) ==
  LET r == request[q]
  IN /\ r.pc = "counted"
     /\ Answer(q)
     /\ reads' = [reads EXCEPT ![r.by] = IF r.count > @ THEN r.count ELSE @]
     /\ UNCHANGED <<messages, conversation, assignees, active, knownWhenDone>>

(* assignConversation checks in its batch that the assignee is active. *)
AssignConversation(q) ==
  LET target == request[q].target
  IN /\ Checked(q, "assign")
     /\ Answer(q)
     /\ assignees' = IF target \in active THEN assignees \union {target}
                     ELSE assignees
     /\ UNCHANGED <<messages, conversation, reads, active, knownWhenDone>>

UnassignConversation(q) ==
  /\ Checked(q, "unassign")
  /\ Answer(q)
  /\ assignees' = assignees \ {request[q].target}
  /\ UNCHANGED <<messages, conversation, reads, active, knownWhenDone>>

(* The isolate is evicted or D1 fails. *)
RequestDies(q) ==
  /\ request[q].pc # "idle"
  /\ Answer(q)
  /\ UNCHANGED <<messages, conversation, reads, assignees, active, knownWhenDone>>

-----------------------------------------------------------------------------
(***************************************************************************)
(* updateMemberStatus: who may do this to whom is not a matter of this     *)
(* module, but at least one active administrator always remains.           *)
(***************************************************************************)
DeactivateMember(m) ==
  /\ m \in active
  /\ active # {m}
  /\ active' = active \ {m}
  /\ assignees' = assignees \ {m}
  /\ UNCHANGED <<messages, conversation, reads, request, knownWhenDone>>

ReactivateMember(m) ==
  /\ m \notin active
  /\ active' = active \union {m}
  /\ UNCHANGED <<messages, conversation, reads, assignees, request, knownWhenDone>>

Next ==
  \/ \E key \in MoKeys : \E at \in Times : \E canonical \in BOOLEAN :
       ReceiveMessage(key, at, canonical)
  \/ \E q \in Requests : \E m \in Writers : \E kind \in Kinds : RequireSession(q, m, kind)
  \/ \E q \in Requests : StartConversation(q)
  \/ \E q \in Requests : \E at \in Times : SendMessage(q, at)
  \/ \E q \in Requests : PatchConversation(q)
  \/ \E q \in Requests : CountInbound(q)
  \/ \E q \in Requests : MarkRead(q)
  \/ \E q \in Requests : AssignConversation(q)
  \/ \E q \in Requests : UnassignConversation(q)
  \/ \E q \in Requests : RequestDies(q)
  \/ \E m \in Members : DeactivateMember(m) \/ ReactivateMember(m)

Spec == Init /\ [][Next]_vars

-----------------------------------------------------------------------------
(***************************************************************************)
(* Properties.                                                             *)
(***************************************************************************)
(* The list sorts and previews by the row: last_message_at is the latest   *)
(* time of any message and last_message_id is one sent or received then,   *)
(* though messages arrive late and out of order, their times are corrected *)
(* afterwards, and two paths with different tie rules keep the projection. *)
LastMessageIsLatest ==
  messages # {} =>
    /\ \A m \in messages : m.at <= conversation.lastAt
    /\ \E m \in messages : m.id = conversation.lastId /\ m.at = conversation.lastAt

(* Unread badges subtract from inbound_count: it counts each message of    *)
(* the customer once, however often a carrier delivers it.                 *)
InboundCountIsExact ==
  Exists => conversation.inbound = Cardinality({m.moKey : m \in Inbound})

(* A completed conversation hides no message of the customer that whoever  *)
(* completed it had not been told of: a new message reopens it, and a      *)
(* PATCH composed before the message comes too late (version).             *)
CompletionsMissNothing ==
  Exists /\ conversation.status = "done" => conversation.inbound = knownWhenDone

(* A read cursor never goes back, also when an older read request is the   *)
(* last to commit, and never runs ahead of the messages.                   *)
ReadsFollowMessages ==
  [][\A m \in Members :
       /\ reads'[m] >= reads[m]
       /\ reads'[m] <= Cardinality(Inbound')]_reads

(* office.ts:2017 "담당 배정은 현재 응대 라우팅이므로 비활성 전이에 함께   *)
(* 제거한다": no inactive member is an assignee.                           *)
AssigneesAreActive == assignees \subseteq active
=============================================================================
