--------------------------- MODULE DeliveryProofs ---------------------------
(***************************************************************************)
(* Proofs about Delivery for every set of client keys, requests, uploads   *)
(* and webhook invocations.  IInv is the inductive invariant: what a       *)
(* request, a webhook or the cron remembers over an awaited step still     *)
(* agrees with the row when it is used.                                    *)
(***************************************************************************)
EXTENDS Delivery, TLAPS

(* The row of a client key belongs to the request that created it. *)
Owns(r) ==
  /\ request[r].key \in Keys
  /\ Exists(request[r].key)
  /\ messages[request[r].key].id = r

(* A carrier holds a message only for the request that owns the row. *)
RequestOK(r) ==
  /\ request[r].pc = "idle" => request[r].key = None
  /\ request[r].pc \notin {"idle", "over"} => request[r].key \in Keys
  /\ request[r].pc \in {"create", "upload", "call", "record"} =>
       request[r].route \in Routes
  /\ request[r].pc \in {"upload", "call", "record"} => Owns(r)
  /\ provider[r] # "none" => /\ request[r].pc \in {"record", "over"}
                             /\ request[r].route \in Routes
                             /\ Owns(r)
  /\ request[r].pc = "record" =>
       /\ request[r].result \in Results
       /\ request[r].result.status # "pending"
       /\ request[r].result.msgKey # None => /\ request[r].result.msgKey = r
                                             /\ request[r].route = "lgu"
                                             /\ provider[r] # "none"
       /\ request[r].result.status = "completed" => provider[r] = "completed"

RequestInv == \A r \in Requests : RequestOK(r)

RowOK(k) ==
  LET row == messages[k]
  IN /\ request[row.id].key = k
     /\ request[row.id].pc \in {"upload", "call", "record", "over"}
     /\ row.status = "pending" => row.msgKey = None
     /\ row.msgKey # None => /\ row.msgKey = row.id
                             /\ request[row.id].route = "lgu"
                             /\ provider[row.id] # "none"
     /\ row.status = "completed" => provider[row.id] = "completed"

RowInv == \A k \in Keys : Exists(k) => RowOK(k)

(* A report in the hands of a webhook is about the row it has looked up.   *)
HookOK(w) ==
  LET r == hook[w].of
      s == hook[w].report.status
  IN /\ r \in Requests
     /\ provider[r] # "none"
     /\ s \in ReportableStatuses(r)
     /\ hook[w].report = PushedReport(r, s)
     /\ hook[w].target = request[r].key
     /\ request[r].route = "lgu" => messages[request[r].key].msgKey = r

HookInv == \A w \in Webhooks : hook[w] # IdleHook => HookOK(w)

(* An answer of LGU+ to a query names a submission of its own, or is the   *)
(* INVALID_KEY failure of the queried client key.                          *)
Polled(report) ==
  \/ report.clientKey \in Keys /\ report.msgKey = None /\ report.status = "failed"
  \/ /\ report.msgKey \in Requests
     /\ report.clientKey = report.msgKey
     /\ report.status \in ReportableStatuses(report.msgKey)

CronInv ==
  /\ \A report \in cron.replies : Polled(report)
  /\ cron.pc = "apply" => /\ cron.report \in Reports
                          /\ Polled(cron.report)
                          /\ cron.target \in Keys
                          /\ Exists(cron.target)

AckInv ==
  \A r \in Requests : \A s \in Statuses :
    <<r, s>> \in acked => /\ provider[r] # "none"
                          /\ messages[request[r].key].status \notin PreviousStatuses(s)

IInv ==
  /\ TypeOK
  /\ RequestInv
  /\ RowInv
  /\ HookInv
  /\ CronInv
  /\ AckInv
  /\ UploadsBelongToOneMessage
-----------------------------------------------------------------------------
(* Facts about the constants. *)
LEMMA Constants ==
  /\ FilesOf \in [Keys -> SUBSET Files]
  /\ InitialChannels \subseteq Channels
  /\ DefaultChannel \in Routes
  /\ None \notin Keys /\ None \notin Requests /\ None \notin Rows
  /\ \A k \in Keys : k \notin Requests
BY ConstantsAssumption, IdentityAssumption

(* The empty tables satisfy the invariant. *)
LEMMA InitIInv == Init => IInv
<1> SUFFICES ASSUME Init PROVE IInv
  OBVIOUS
<1> USE DEF Init, Exists
<1>1. TypeOK
  BY Constants DEF TypeOK, IdleHook, IdleCron, Channels, RequestPcs, RequestStates,
     HookStates, CronStates, ProviderStates
<1>2. RequestInv
  BY DEF RequestInv, RequestOK
<1>3. RowInv /\ HookInv /\ CronInv /\ AckInv
  BY DEF RowInv, RowOK, HookInv, CronInv, AckInv, IdleCron
<1>4. UploadsBelongToOneMessage
  BY Constants DEF UploadsBelongToOneMessage
<1> QED
  BY <1>1, <1>2, <1>3, <1>4 DEF IInv

(* The handler is done with its request. *)
RequestEnds(r) ==
  /\ request[r].pc = "record"
  /\ request' = [request EXCEPT ![r].pc = "over"]

(* A step of the POST handler that leaves the database alone: the handler's *)
(* own state changes, and perhaps the carrier takes the message over.      *)
LEMMA HandlerStep ==
  ASSUME IInv, NEW r \in Requests,
         request' \in [Requests -> RequestStates],
         \A q \in Requests \ {r} : request'[q] = request[q],
         request[r].pc \notin {"idle", "prepare"} =>
           /\ request'[r].key = request[r].key
           /\ request'[r].route = request[r].route,
         request[r].pc \in {"upload", "call", "record", "over"} =>
           request'[r].pc \in {"upload", "call", "record", "over"},
         provider' \in [Requests -> ProviderStates],
         \A q \in Requests : provider[q] # "none" => provider'[q] = provider[q],
         \A q \in Requests \ {r} : provider'[q] = provider[q],
         RequestOK(r)',
         UNCHANGED <<rowVars, fileVars, channel, hook, cron, aged, acked>>
  PROVE  IInv'
<1> USE DEF rowVars, fileVars
<1>1. TypeOK /\ RequestInv /\ RowInv /\ HookInv /\ CronInv /\ AckInv
  BY DEF IInv
<1>2. TypeOK'
  BY <1>1 DEF TypeOK
<1>3. RequestInv'
  <2>1. \A q \in Requests \ {r} : RequestOK(q)'
    BY <1>1 DEF RequestInv, RequestOK, Owns, Exists
  <2> QED
    BY <2>1 DEF RequestInv
<1>4. \A q \in Requests : provider[q] # "none" =>
        /\ request'[q].key = request[q].key
        /\ request'[q].route = request[q].route
        /\ provider'[q] = provider[q]
  BY <1>1 DEF RequestInv, RequestOK
<1>5. RowInv'
  BY <1>1, <1>4 DEF TypeOK, RequestStates, RowInv, RowOK, Exists, Rows
<1>6. HookInv'
  <2> SUFFICES ASSUME NEW w \in Webhooks, hook[w] # IdleHook
               PROVE  (HookOK(w))'
    BY DEF HookInv
  <2>1. HookOK(w)
    BY <1>1 DEF HookInv
  <2>2. \A s : PushedReport(hook[w].of, s)' = PushedReport(hook[w].of, s)
    BY <1>4, <2>1 DEF HookOK, PushedReport, ProviderKey
  <2>3. ReportableStatuses(hook[w].of)' = ReportableStatuses(hook[w].of)
    BY <1>4, <2>1 DEF HookOK, ReportableStatuses
  <2> QED
    BY <1>4, <2>1, <2>2, <2>3 DEF HookOK
<1>7. \A report \in Reports : Polled(report) => Polled(report)'
  BY <1>4 DEF Polled, ReportableStatuses
<1>8. CronInv'
  BY <1>1, <1>7 DEF TypeOK, CronStates, CronInv, Exists
<1>9. AckInv'
  BY <1>1, <1>4 DEF AckInv
<1>10. UploadsBelongToOneMessage'
  BY DEF IInv, UploadsBelongToOneMessage, Exists
<1> QED
  BY <1>2, <1>3, <1>5, <1>6, <1>8, <1>9, <1>10 DEF IInv

(* Reading the existing message changes nothing but the request's own pc   *)
(* and key.                                                                *)
LEMMA LoadExistingMessageStep ==
  ASSUME IInv, NEW r \in Requests, NEW k \in Keys, LoadExistingMessage(r, k)
  PROVE  IInv'
<1>1. TypeOK /\ RequestOK(r)
  BY DEF IInv, RequestInv
<1>2. request'[r] \in RequestStates
  BY <1>1 DEF LoadExistingMessage, TypeOK, RequestStates, RequestPcs
<1>3. request' \in [Requests -> RequestStates]
  BY <1>1, <1>2 DEF LoadExistingMessage, TypeOK
<1>4. RequestOK(r)'
  BY <1>1 DEF LoadExistingMessage, TypeOK, RequestStates, RequestOK, Owns, Exists, carrierVars
<1> QED
  BY <1>1, <1>3, <1>4, HandlerStep DEF LoadExistingMessage, TypeOK, carrierVars

(* Choosing the route and reading the staged uploads writes no row. *)
LEMMA LoadSendContextStep ==
  ASSUME IInv, NEW r \in Requests, LoadSendContext(r)
  PROVE  IInv'
<1>1. TypeOK /\ RequestOK(r)
  BY DEF IInv, RequestInv
<1>2. request'[r] \in RequestStates /\ request'[r].route \in Routes
  <2> DEFINE route == IF channel = "unset" THEN DefaultChannel ELSE channel
  <2>1. route \in Routes
    BY <1>1, Constants DEF TypeOK, Channels
  <2>2. PICK pc \in {"create", "over"} :
          request' = [request EXCEPT ![r] = [@ EXCEPT !.route = route, !.pc = pc]]
    BY DEF LoadSendContext
  <2>3. request'[r] = [request[r] EXCEPT !.route = route, !.pc = pc]
    BY <1>1, <2>2 DEF TypeOK
  <2> HIDE DEF route
  <2> QED
    BY <1>1, <2>1, <2>3 DEF TypeOK, RequestStates, RequestPcs
<1>3. request' \in [Requests -> RequestStates]
  BY <1>1, <1>2 DEF LoadSendContext, TypeOK
<1>4. RequestOK(r)'
  BY <1>1, <1>2 DEF LoadSendContext, TypeOK, RequestStates, RequestOK, Owns, Exists,
                    rowVars, carrierVars
<1> QED
  BY <1>1, <1>3, <1>4, HandlerStep DEF LoadSendContext, TypeOK, RequestStates, carrierVars

(* A request that dies leaves what it has written. *)
LEMMA RequestDiesStep ==
  ASSUME IInv, NEW r \in Requests, RequestDies(r)
  PROVE  IInv'
<1>1. TypeOK /\ RequestOK(r)
  BY DEF IInv, RequestInv
<1>2. request'[r] \in RequestStates
  BY <1>1 DEF RequestDies, GoTo, TypeOK, RequestStates, RequestPcs
<1>3. request' \in [Requests -> RequestStates]
  BY <1>1, <1>2 DEF RequestDies, GoTo, TypeOK
<1>4. RequestOK(r)'
  BY <1>1 DEF RequestDies, GoTo, TypeOK, RequestStates, RequestOK, Owns, Exists,
              rowVars, carrierVars
<1> QED
  BY <1>1, <1>3, <1>4, HandlerStep DEF RequestDies, GoTo, TypeOK, RequestStates, carrierVars

(* Uploading to LGU+ ends in the call or in a failed result. *)
LEMMA UploadAttachmentsStep ==
  ASSUME IInv, NEW r \in Requests, UploadAttachments(r)
  PROVE  IInv'
<1>1. TypeOK /\ RequestOK(r)
  BY DEF IInv, RequestInv
<1>2. PICK new \in RequestStates :
        /\ request' = [request EXCEPT ![r] = new]
        /\ new.key = request[r].key /\ new.route = request[r].route
        /\ \/ new.pc = "call"
           \/ /\ new.pc = "record"
              /\ new.result = [status |-> "failed", msgKey |-> None]
  <2>1. [status |-> "failed", msgKey |-> None] \in Results
    BY DEF Results, Statuses
  <2>2. CASE GoTo(r, "call")
    <3>1. [request[r] EXCEPT !.pc = "call"] \in RequestStates
      BY <1>1 DEF TypeOK, RequestStates, RequestPcs
    <3> QED
      BY <1>1, <2>2, <3>1 DEF GoTo, TypeOK, RequestStates
  <2>3. CASE SetResult(r, [status |-> "failed", msgKey |-> None])
    <3>1. [request[r] EXCEPT !.pc = "record", !.result = [status |-> "failed", msgKey |-> None]]
            \in RequestStates
      BY <1>1, <2>1 DEF TypeOK, RequestStates, RequestPcs
    <3> QED
      BY <1>1, <2>3, <3>1 DEF SetResult, TypeOK, RequestStates
  <2> QED
    BY <2>2, <2>3 DEF UploadAttachments
<1>3. request' \in [Requests -> RequestStates] /\ request'[r] = new
  BY <1>1, <1>2 DEF TypeOK
<1>4. RequestOK(r)'
  BY <1>1, <1>2, <1>3 DEF UploadAttachments, TypeOK, RequestOK, Results, Statuses,
                          Owns, Exists, rowVars, carrierVars
<1> QED
  BY <1>1, <1>2, <1>3, <1>4, HandlerStep DEF UploadAttachments, TypeOK, carrierVars

(* What a hand-over may leave behind in the request and at the carrier. *)
LEMMA HandOverStep ==
  ASSUME IInv, NEW r \in Requests,
         NEW result \in Results \union {None}, NEW pc \in {"record", "over"},
         NEW state \in ProviderStates,
         request[r].pc = "call",
         request' = [request EXCEPT ![r] = [@ EXCEPT !.pc = pc, !.result = result]],
         provider' = [provider EXCEPT ![r] = state],
         pc = "record" =>
           /\ result \in Results
           /\ result.status # "pending"
           /\ result.msgKey # None => /\ result.msgKey = r
                                      /\ request[r].route = "lgu"
                                      /\ state # "none"
           /\ result.status = "completed" => state = "completed",
         UNCHANGED <<rowVars, fileVars, channel, hook, cron, aged, acked>>
  PROVE  IInv'
<1>1. TypeOK /\ RequestOK(r)
  BY DEF IInv, RequestInv
<1>2. request'[r] = [request[r] EXCEPT !.pc = pc, !.result = result]
  BY <1>1 DEF TypeOK
<1>3. request'[r] \in RequestStates
  BY <1>1, <1>2 DEF TypeOK, RequestStates, RequestPcs
<1>4. request' \in [Requests -> RequestStates]
  BY <1>1, <1>2, <1>3 DEF TypeOK
<1>5. provider' \in [Requests -> ProviderStates] /\ provider'[r] = state
  BY <1>1 DEF TypeOK
<1>6. RequestOK(r)'
  BY <1>1, <1>2, <1>5 DEF TypeOK, RequestStates, RequestOK, Owns, Exists, rowVars
<1> QED
  BY <1>1, <1>2, <1>4, <1>5, <1>6, HandlerStep DEF TypeOK, RequestStates, RequestOK

(* LGU+ answers: a msgKey is recorded only for an accepted submission. *)
LEMMA SendTextMessageStep ==
  ASSUME IInv, NEW r \in Requests, SendTextMessage(r)
  PROVE  IInv'
<1>1. TypeOK
  BY DEF IInv
<1>2. /\ request[r] \in RequestStates
      /\ request[r].result \in Results \union {None}
      /\ provider = [provider EXCEPT ![r] = provider[r]]
      /\ provider[r] \in ProviderStates
      /\ request[r].pc = "call"
      /\ request[r].route = "lgu"
  BY <1>1 DEF TypeOK, RequestStates, SendTextMessage
<1>3. [status |-> "failed", msgKey |-> None] \in Results
  BY DEF Results, Statuses
<1>4. CASE SetResult(r, [status |-> "accepted", msgKey |-> r])
             /\ provider' = [provider EXCEPT ![r] = "accepted"]
  <2>1. [status |-> "accepted", msgKey |-> r] \in Results
    BY DEF Results, Statuses
  <2> QED
    BY <1>2, <1>4, <2>1, Constants, HandOverStep
       DEF SendTextMessage, SetResult, ProviderStates
<1>5. CASE GoTo(r, "over") /\ provider' = [provider EXCEPT ![r] = "accepted"]
  <2>1. request' = [request EXCEPT ![r] =
                      [@ EXCEPT !.pc = "over", !.result = request[r].result]]
    BY <1>1, <1>2, <1>5 DEF GoTo, TypeOK, RequestStates
  <2> QED
    BY <1>2, <1>5, <2>1, HandOverStep DEF SendTextMessage, ProviderStates
<1>6. CASE SetResult(r, [status |-> "failed", msgKey |-> None]) /\ UNCHANGED provider
  BY <1>2, <1>3, <1>6, HandOverStep DEF SendTextMessage, SetResult
<1> QED
  BY <1>4, <1>5, <1>6 DEF SendTextMessage

(* The gateway answers: completed is recorded only for a delivered message. *)
LEMMA SendGatewayTextMessageStep ==
  ASSUME IInv, NEW r \in Requests, SendGatewayTextMessage(r)
  PROVE  IInv'
<1>1. TypeOK
  BY DEF IInv
<1>2. /\ request[r] \in RequestStates
      /\ request[r].result \in Results \union {None}
      /\ provider = [provider EXCEPT ![r] = provider[r]]
      /\ provider[r] \in ProviderStates
      /\ request[r].pc = "call"
  BY <1>1 DEF TypeOK, RequestStates, SendGatewayTextMessage
<1>3. \A s \in {"accepted", "sending"} \union Terminal :
        [status |-> s, msgKey |-> None] \in Results /\ s # "pending" /\ s \in ProviderStates
  BY DEF Results, Statuses, Terminal, ProviderStates
<1>4. [status |-> "failed", msgKey |-> None] \in Results
  BY DEF Results, Statuses
<1>5. CASE SetResult(r, [status |-> "failed", msgKey |-> None]) /\ UNCHANGED provider
  BY <1>2, <1>4, <1>5, HandOverStep DEF SendGatewayTextMessage, SetResult
<1>6. ASSUME NEW state \in {"accepted", "sending"} \union Terminal,
             provider' = [provider EXCEPT ![r] = state],
             SetResult(r, [status |-> state, msgKey |-> None])
      PROVE  IInv'
  BY <1>2, <1>3, <1>6, HandOverStep DEF SendGatewayTextMessage, SetResult
<1>7. ASSUME NEW state \in {"accepted", "sending"} \union Terminal,
             provider' = [provider EXCEPT ![r] = state],
             SetResult(r, [status |-> "failed", msgKey |-> None])
      PROVE  IInv'
  BY <1>2, <1>3, <1>4, <1>7, HandOverStep DEF SendGatewayTextMessage, SetResult
<1>8. ASSUME NEW state \in {"accepted", "sending"} \union Terminal,
             provider' = [provider EXCEPT ![r] = state],
             GoTo(r, "over")
      PROVE  IInv'
  <2>1. request' = [request EXCEPT ![r] =
                      [@ EXCEPT !.pc = "over", !.result = request[r].result]]
    BY <1>1, <1>2, <1>8 DEF GoTo, TypeOK, RequestStates
  <2> QED
    BY <1>2, <1>3, <1>8, <2>1, HandOverStep DEF SendGatewayTextMessage
<1> QED
  BY <1>5, <1>6, <1>7, <1>8 DEF SendGatewayTextMessage

-----------------------------------------------------------------------------
(***************************************************************************)
(* Steps that write a row.                                                 *)
(***************************************************************************)
LEMMA LadderFacts ==
  /\ PreviousStatuses("pending") = {}
  /\ \A s \in Statuses : s \notin PreviousStatuses(s)
  /\ \A s, t, u \in Statuses : /\ s \notin PreviousStatuses(u)
                              /\ s \in PreviousStatuses(t)
                              => t \notin PreviousStatuses(u)
BY DEF PreviousStatuses, Statuses, Terminal

(* The creation batch: a key and its uploads are bound at most once, by the *)
(* request that inserts the row.                                           *)
LEMMA CreateMessageStep ==
  ASSUME IInv, NEW r \in Requests, CreateMessage(r)
  PROVE  IInv'
<1> DEFINE k == request[r].key
           files == FilesOf[k]
<1>1. /\ TypeOK /\ RequestOK(r) /\ RequestInv /\ RowInv /\ HookInv /\ CronInv /\ AckInv
      /\ UploadsBelongToOneMessage
      /\ k \in Keys /\ request[r] \in RequestStates /\ request[r].route \in Routes
      /\ provider[r] = "none" /\ request[r].pc = "create"
  BY DEF IInv, RequestInv, RequestOK, TypeOK, CreateMessage
<1>2. CASE Exists(k) \/ \E f \in files : attachedTo[f] # None
  <2>1. /\ request' = [request EXCEPT ![r].pc = "over"]
        /\ UNCHANGED <<rowVars, fileVars, channel, carrierVars, hook, cron, aged>>
    BY <1>2 DEF CreateMessage, GoTo
  <2>2. RequestDies(r)
    BY <1>1, <2>1 DEF RequestDies, GoTo
  <2> QED
    BY <2>2, RequestDiesStep
<1>3. CASE ~(Exists(k) \/ \E f \in files : attachedTo[f] # None)
  <2> DEFINE row == [id |-> r, status |-> "pending", msgKey |-> None]
  <2>1. PICK pc \in {"call", "upload"} : request' = [request EXCEPT ![r].pc = pc]
    BY <1>3 DEF CreateMessage, GoTo
  <2>2. /\ messages[k] = None
        /\ messages' = [messages EXCEPT ![k] = row]
        /\ announced' = [announced EXCEPT ![k] = Append(@, "pending")]
        /\ attachedTo' = [f \in Files |-> IF f \in files THEN k ELSE attachedTo[f]]
        /\ staged' = staged \ files
        /\ \A f \in files : attachedTo[f] = None
        /\ UNCHANGED <<channel, provider, acked, hook, cron, aged>>
    BY <1>3 DEF CreateMessage, WriteRow, Exists, carrierVars
  <2>3. row \in Rows /\ row # None
    BY Constants DEF Rows, Statuses
  <2>4. /\ request' \in [Requests -> RequestStates]
        /\ request'[r] = [request[r] EXCEPT !.pc = pc]
        /\ \A q \in Requests \ {r} : request'[q] = request[q]
    <3>1. [request[r] EXCEPT !.pc = pc] \in RequestStates
      BY <1>1 DEF RequestStates, RequestPcs
    <3> QED
      BY <1>1, <2>1, <3>1 DEF TypeOK
  <2>5. \A q \in Requests : request'[q].key = request[q].key /\ request'[q].route = request[q].route
    BY <1>1, <2>4 DEF RequestStates
  <2>6. /\ messages' \in [Keys -> Rows \union {None}]
        /\ messages'[k] = row
        /\ \A j \in Keys \ {k} : messages'[j] = messages[j]
    BY <1>1, <2>2, <2>3 DEF TypeOK
  <2>7. TypeOK'
    <3>1. announced' \in [Keys -> Seq(Statuses)]
      BY <1>1, <2>2 DEF TypeOK, Statuses
    <3>2. files \subseteq Files
      BY <1>1, Constants
    <3>3. attachedTo' \in [Files -> Keys \union {None}] /\ staged' \subseteq Files
      BY <1>1, <2>2, <3>2 DEF TypeOK
    <3> QED
      BY <1>1, <2>2, <2>4, <2>6, <3>1, <3>3 DEF TypeOK
  <2>8. RequestInv'
    <3>1. RequestOK(r)'
      BY <1>1, <2>2, <2>3, <2>4, <2>6 DEF RequestStates, RequestOK, Owns, Exists
    <3>2. ASSUME NEW q \in Requests \ {r} PROVE RequestOK(q)'
      <4>1. RequestOK(q)
        BY <1>1 DEF RequestInv
      <4>2. Owns(q) => Owns(q)'
        BY <2>2, <2>4, <2>6 DEF Owns, Exists
      <4> QED
        BY <2>2, <2>4, <4>1, <4>2 DEF RequestOK
    <3> QED
      BY <3>1, <3>2 DEF RequestInv
  <2>9. RowInv'
    <3>1. ASSUME NEW j \in Keys, Exists(j)' PROVE RowOK(j)'
      <4>1. CASE j = k
        BY <1>1, <2>2, <2>4, <2>5, <2>6, <4>1 DEF RowOK, RequestStates
      <4>2. CASE j # k
        <5>1. RowOK(j) /\ messages'[j] = messages[j] /\ messages[j].id \in Requests
          BY <1>1, <2>6, <3>1, <4>2 DEF RowInv, Exists, TypeOK, Rows
        <5>2. messages[j].id # r
          BY <1>1, <5>1 DEF RowOK
        <5> QED
          BY <2>2, <2>4, <2>5, <5>1, <5>2 DEF RowOK
      <4> QED
        BY <4>1, <4>2
    <3> QED
      BY <3>1 DEF RowInv
  <2>10. HookInv'
    <3> SUFFICES ASSUME NEW w \in Webhooks, hook[w] # IdleHook
                 PROVE  HookOK(w)'
      BY <2>2 DEF HookInv, IdleHook
    <3>1. HookOK(w) /\ hook[w].of # r
      BY <1>1 DEF HookInv, HookOK
    <3>2. /\ request'[hook[w].of] = request[hook[w].of]
          /\ Owns(hook[w].of)
      BY <1>1, <2>4, <3>1 DEF HookOK, RequestInv, RequestOK
    <3>3. messages'[request[hook[w].of].key] = messages[request[hook[w].of].key]
      BY <2>2, <2>6, <3>2 DEF Owns, Exists
    <3> QED
      BY <2>2, <3>1, <3>2, <3>3 DEF HookOK, PushedReport, ProviderKey, ReportableStatuses
  <2>11. CronInv'
    BY <1>1, <2>2, <2>3, <2>6 DEF CronInv, Polled, ReportableStatuses, Exists
  <2>12. AckInv'
    <3> SUFFICES ASSUME NEW q \in Requests, NEW s \in Statuses, <<q, s>> \in acked
                 PROVE  /\ provider[q] # "none"
                        /\ messages'[request'[q].key].status \notin PreviousStatuses(s)
      BY <2>2 DEF AckInv
    <3>1. /\ provider[q] # "none"
          /\ messages[request[q].key].status \notin PreviousStatuses(s)
          /\ Owns(q)
      BY <1>1 DEF AckInv, RequestInv, RequestOK
    <3> QED
      BY <2>2, <2>5, <2>6, <3>1 DEF Owns, Exists
  <2>13. UploadsBelongToOneMessage'
    <3>1. \A f \in Files : f \in staged' <=> attachedTo'[f] = None
      BY <1>1, <2>2, Constants DEF UploadsBelongToOneMessage
    <3>2. {f \in Files : attachedTo'[f] = k} = FilesOf[k]
      BY <1>1, <2>2, Constants DEF UploadsBelongToOneMessage, Exists
    <3>3. \A j \in Keys \ {k} : {f \in Files : attachedTo'[f] = j} = {f \in Files : attachedTo[f] = j}
      BY <2>2, <1>1, Constants
    <3> QED
      BY <1>1, <2>2, <2>3, <2>6, <3>1, <3>2, <3>3 DEF UploadsBelongToOneMessage, Exists
  <2> QED
    BY <2>7, <2>8, <2>9, <2>10, <2>11, <2>12, <2>13 DEF IInv
<1> QED
  BY <1>2, <1>3

(* The row of k rises to "row": what every party remembers stays true.     *)
LEMMA RisingRow ==
  ASSUME IInv, NEW k \in Keys, Exists(k),
         NEW row \in Rows, WriteRow(k, row),
         row.id = messages[k].id,
         messages[k].status \in PreviousStatuses(row.status),
         messages[k].msgKey \in {None, row.msgKey},
         row.msgKey # None => /\ row.msgKey = row.id
                              /\ request[row.id].route = "lgu"
                              /\ provider[row.id] # "none",
         row.status = "completed" => provider[row.id] = "completed",
         request' = request \/ \E r \in Requests : RequestEnds(r),
         \A w \in Webhooks : hook'[w] \in {hook[w], IdleHook},
         UNCHANGED <<fileVars, channel, provider, aged>>
  PROVE  /\ messages' \in [Keys -> Rows \union {None}]
         /\ announced' \in [Keys -> Seq(Statuses)]
         /\ request' \in [Requests -> RequestStates]
         /\ RequestInv' /\ RowInv' /\ HookInv' /\ UploadsBelongToOneMessage'
         /\ \A j \in Keys : Exists(j) => Exists(j)'
         /\ \A report : Polled(report) => Polled(report)'
         /\ \A r \in Requests : request'[r].key = request[r].key
         /\ \A r \in Requests : \A s \in Statuses :
              Owns(r) /\ messages[request[r].key].status \notin PreviousStatuses(s)
                => messages'[request[r].key].status \notin PreviousStatuses(s)
         /\ messages'[k] = row
<1>1. TypeOK /\ RequestInv /\ RowInv /\ HookInv /\ UploadsBelongToOneMessage
  BY DEF IInv
<1>2. /\ messages' \in [Keys -> Rows \union {None}]
      /\ messages'[k] = row
      /\ \A j \in Keys \ {k} : messages'[j] = messages[j]
      /\ row # None /\ messages[k] \in Rows
  BY <1>1, Constants DEF WriteRow, TypeOK, Exists
<1>3. announced' \in [Keys -> Seq(Statuses)]
  <2>1. row.status \in Statuses
    BY DEF Rows
  <2> QED
    BY <1>1, <2>1 DEF WriteRow, TypeOK
<1> DEFINE OnlyEnds ==
      /\ request' \in [Requests -> RequestStates]
      /\ \A r \in Requests :
           /\ request'[r].key = request[r].key
           /\ request'[r].route = request[r].route
           /\ request'[r].result = request[r].result
           /\ \/ request'[r].pc = request[r].pc
              \/ request[r].pc = "record" /\ request'[r].pc = "over"
<1>4. OnlyEnds
  <2>1. CASE request' = request
    BY <1>1, <2>1 DEF TypeOK
  <2>2. ASSUME NEW r \in Requests, RequestEnds(r)
        PROVE  OnlyEnds
    <3>1. [request[r] EXCEPT !.pc = "over"] \in RequestStates
      BY <1>1 DEF TypeOK, RequestStates, RequestPcs
    <3>2. request' \in [Requests -> RequestStates]
      BY <1>1, <2>2, <3>1 DEF RequestEnds, TypeOK
    <3>3. /\ request'[r] = [request[r] EXCEPT !.pc = "over"]
          /\ \A q \in Requests \ {r} : request'[q] = request[q]
          /\ request[r].pc = "record"
      BY <1>1, <2>2 DEF RequestEnds, TypeOK
    <3>4. /\ request'[r].key = request[r].key
          /\ request'[r].route = request[r].route
          /\ request'[r].result = request[r].result
          /\ request'[r].pc = "over"
      BY <1>1, <3>3 DEF TypeOK, RequestStates
    <3> QED
      BY <3>2, <3>3, <3>4
  <2> QED
    BY <2>1, <2>2
<1>5. \A r : Owns(r) /\ r \in Requests => Owns(r)'
  BY <1>2, <1>4 DEF Owns, Exists
<1>6. RequestInv'
  <2> SUFFICES ASSUME NEW r \in Requests PROVE RequestOK(r)'
    BY DEF RequestInv
  <2>1. RequestOK(r)
    BY <1>1 DEF RequestInv
  <2> QED
    BY <1>4, <1>5, <2>1 DEF RequestOK
<1>7. RowInv'
  <2> SUFFICES ASSUME NEW j \in Keys, Exists(j)' PROVE RowOK(j)'
    BY DEF RowInv
  <2>1. Exists(j) /\ RowOK(j)
    BY <1>1, <1>2 DEF RowInv, Exists
  <2>2. messages'[j].id = messages[j].id /\ messages[j].id \in Requests
    BY <1>1, <1>2, <2>1 DEF Exists, TypeOK, Rows
  <2>3. row.status # "pending"
    BY LadderFacts
  <2>4. CASE j = k
    BY <1>2, <1>4, <2>1, <2>2, <2>3, <2>4 DEF RowOK
  <2>5. CASE j # k
    BY <1>2, <1>4, <2>1, <2>2, <2>5 DEF RowOK
  <2> QED
    BY <2>4, <2>5
<1>8. HookInv'
  <2> SUFFICES ASSUME NEW w \in Webhooks, hook'[w] # IdleHook PROVE HookOK(w)'
    BY DEF HookInv, IdleHook
  <2>1. hook'[w] = hook[w] /\ HookOK(w)
    BY <1>1 DEF HookInv
  <2>2. Owns(hook[w].of)
    BY <1>1, <2>1 DEF HookOK, RequestInv, RequestOK
  <2>3. messages[request[hook[w].of].key].msgKey # None =>
          messages'[request[hook[w].of].key].msgKey = messages[request[hook[w].of].key].msgKey
    BY <1>2, <2>2 DEF Owns
  <2> QED
    BY <1>4, <2>1, <2>3, Constants DEF HookOK, PushedReport, ProviderKey, ReportableStatuses
<1>9. UploadsBelongToOneMessage'
  BY <1>1, <1>2 DEF UploadsBelongToOneMessage, Exists, fileVars
<1>10. \A j \in Keys : Exists(j) => Exists(j)'
  BY <1>2 DEF Exists
<1>11. \A report : Polled(report) => Polled(report)'
  BY DEF Polled, ReportableStatuses
<1>12. \A r \in Requests : \A s \in Statuses :
         Owns(r) /\ messages[request[r].key].status \notin PreviousStatuses(s)
           => messages'[request[r].key].status \notin PreviousStatuses(s)
  <2>1. row.status \in Statuses /\ messages[k].status \in Statuses
    BY <1>2 DEF Rows
  <2> QED
    BY <1>2, <2>1, LadderFacts DEF Owns
<1> QED
  BY <1>2, <1>3, <1>4, <1>6, <1>7, <1>8, <1>9, <1>10, <1>11, <1>12

(* Recording a result writes only the request's own, still pending row. *)
LEMMA RecordDeliveryResultStep ==
  ASSUME IInv, NEW r \in Requests, RecordDeliveryResult(r)
  PROVE  IInv'
<1> DEFINE k == request[r].key
           row == [id |-> messages[k].id, status |-> request[r].result.status,
                   msgKey |-> request[r].result.msgKey]
<1>1. /\ TypeOK /\ RequestInv /\ RequestOK(r) /\ RowInv /\ CronInv /\ AckInv
      /\ request[r].pc = "record" /\ Owns(r) /\ k \in Keys /\ Exists(k)
      /\ messages[k] \in Rows
  BY DEF IInv, RequestInv, RequestOK, RecordDeliveryResult, Owns, TypeOK, Exists
<1>2. RequestEnds(r)
  BY DEF RecordDeliveryResult, RequestEnds, GoTo
<1>3. CASE messages[k].status = "pending"
  <2>1. WriteRow(k, row)
    BY <1>3 DEF RecordDeliveryResult
  <2>2. row \in Rows /\ row.id = r /\ row.status # "pending"
    BY <1>1 DEF RequestOK, Results, Rows, Owns
  <2>3. messages[k].status \in PreviousStatuses(row.status)
    BY <1>3, <2>2 DEF PreviousStatuses, Rows, Statuses, Terminal
  <2>4. messages[k].msgKey = None
    BY <1>1, <1>3 DEF RowInv, RowOK
  <2>5. /\ row.msgKey # None => /\ row.msgKey = row.id
                                /\ request[row.id].route = "lgu"
                                /\ provider[row.id] # "none"
        /\ row.status = "completed" => provider[row.id] = "completed"
    BY <1>1, <2>2 DEF RequestOK
  <2>6. UNCHANGED <<fileVars, channel, provider, acked, hook, cron, aged>>
    BY DEF RecordDeliveryResult, carrierVars
  <2> HIDE DEF row
  <2>7. /\ messages' \in [Keys -> Rows \union {None}]
        /\ announced' \in [Keys -> Seq(Statuses)]
        /\ request' \in [Requests -> RequestStates]
        /\ RequestInv' /\ RowInv' /\ HookInv' /\ UploadsBelongToOneMessage'
        /\ \A j \in Keys : Exists(j) => Exists(j)'
        /\ \A report : Polled(report) => Polled(report)'
        /\ \A q \in Requests : request'[q].key = request[q].key
        /\ \A q \in Requests : \A s \in Statuses :
              Owns(q) /\ messages[request[q].key].status \notin PreviousStatuses(s)
                => messages'[request[q].key].status \notin PreviousStatuses(s)
    BY <1>1, <1>2, <2>1, <2>2, <2>3, <2>4, <2>5, <2>6, RisingRow DEF Owns
  <2>8. TypeOK'
    BY <1>1, <2>6, <2>7 DEF TypeOK, fileVars
  <2>9. CronInv'
    BY <1>1, <2>6, <2>7 DEF CronInv
  <2>10. AckInv'
    BY <1>1, <2>6, <2>7 DEF AckInv, RequestInv, RequestOK
  <2> QED
    BY <2>7, <2>8, <2>9, <2>10 DEF IInv
<1>4. CASE messages[k].status # "pending"
  <2>1. RequestDies(r)
    BY <1>1, <1>4 DEF RecordDeliveryResult, RequestDies
  <2> QED
    BY <2>1, RequestDiesStep
<1> QED
  BY <1>3, <1>4

(* Every step of the POST handler preserves the invariant. *)
LEMMA HandlerSteps ==
  ASSUME IInv, NEW r \in Requests, RequestStep(r) \/ RequestDies(r)
  PROVE  IInv'
BY LoadSendContextStep, CreateMessageStep, UploadAttachmentsStep, SendTextMessageStep,
   SendGatewayTextMessageStep, RecordDeliveryResultStep, RequestDiesStep DEF RequestStep

-----------------------------------------------------------------------------
(***************************************************************************)
(* Carriers, webhooks and the cron.                                        *)
(***************************************************************************)
LEMMA ProviderAdvancesStep ==
  ASSUME IInv, NEW r \in Requests, ProviderAdvances(r)
  PROVE  IInv'
<1>1. TypeOK /\ RequestInv /\ RowInv /\ HookInv /\ CronInv /\ AckInv
  BY DEF IInv
<1>2. PICK s \in {"sending"} \union Terminal : provider' = [provider EXCEPT ![r] = s]
  BY DEF ProviderAdvances
<1>3. /\ UNCHANGED <<messages, announced, staged, attachedTo, channel, request, hook, cron,
                     aged, acked>>
      /\ provider[r] \in {"accepted", "sending"}
      /\ provider[r] = "sending" => provider'[r] \in Terminal
  BY <1>1, <1>2 DEF ProviderAdvances, rowVars, fileVars, TypeOK, Terminal
<1>4. /\ provider' \in [Requests -> ProviderStates]
      /\ \A q \in Requests : /\ provider[q] = "none" <=> provider'[q] = "none"
                             /\ provider[q] = "completed" => provider'[q] = "completed"
                             /\ ReportableStatuses(q) \subseteq ReportableStatuses(q)'
  <2>1. s \in ProviderStates \ {"none", "accepted"}
    BY DEF ProviderStates, Terminal
  <2>2. provider' \in [Requests -> ProviderStates] /\ provider'[r] = s
    BY <1>1, <1>2, <2>1 DEF TypeOK
  <2>3. ReportableStatuses(r) \subseteq ReportableStatuses(r)'
    BY <1>3, <2>1, <2>2 DEF ReportableStatuses, ProviderStates, Terminal
  <2>4. ASSUME NEW q \in Requests \ {r}
        PROVE  provider'[q] = provider[q] /\ ReportableStatuses(q)' = ReportableStatuses(q)
    BY <1>1, <1>2 DEF TypeOK, ReportableStatuses
  <2> QED
    BY <1>3, <2>1, <2>2, <2>3, <2>4
<1>5. TypeOK'
  BY <1>1, <1>3, <1>4 DEF TypeOK
<1>6. RequestInv'
  BY <1>1, <1>3, <1>4 DEF RequestInv, RequestOK, Owns, Exists
<1>7. RowInv'
  BY <1>1, <1>3, <1>4 DEF RowInv, RowOK, Exists, TypeOK, Rows
<1>8. HookInv'
  BY <1>1, <1>3, <1>4 DEF HookInv, HookOK, PushedReport, ProviderKey
<1>9. CronInv'
  BY <1>1, <1>3, <1>4 DEF CronInv, Polled, Exists
<1>10. AckInv'
  BY <1>1, <1>3, <1>4 DEF AckInv
<1>11. UploadsBelongToOneMessage'
  BY <1>3 DEF IInv, UploadsBelongToOneMessage, Exists
<1> QED
  BY <1>5, <1>6, <1>7, <1>8, <1>9, <1>10, <1>11 DEF IInv

(* A pushed report finds the row of the request it is about, and only it.  *)
LEMMA PushedReportFindsItsRow ==
  ASSUME IInv, NEW r \in Requests, provider[r] # "none", NEW s \in Statuses,
         NEW k \in FindMessage(PushedReport(r, s))
  PROVE  /\ k = request[r].key
         /\ request[r].route = "lgu" => messages[k].msgKey = r
<1>1. /\ RowInv /\ Owns(r) /\ request[r].route \in Routes /\ request[r].key \in Keys
  BY DEF IInv, RequestInv, RequestOK, Owns
<1>2. k \in Keys /\ Exists(k) /\ RowOK(k)
  BY <1>1 DEF FindMessage, RowInv
<1>3. CASE request[r].route = "lgu"
  <2>1. messages[k].msgKey = r
    BY <1>2, <1>3, Constants DEF FindMessage, PushedReport, ProviderKey
  <2>2. messages[k].id = r
    BY <1>2, <2>1, Constants DEF RowOK
  <2> QED
    BY <1>1, <1>2, <2>1, <2>2 DEF RowOK, Owns
<1>4. CASE request[r].route # "lgu"
  BY <1>2, <1>4 DEF FindMessage, PushedReport, ProviderKey
<1> QED
  BY <1>3, <1>4

(* A report of the gateway always finds its row: the message was stored    *)
(* before it was handed over.                                              *)
LEMMA GatewayReportIsKnown ==
  ASSUME IInv, NEW r \in Requests, provider[r] # "none", request[r].route = "device",
         NEW s \in Statuses
  PROVE  FindMessage(PushedReport(r, s)) # {}
<1>1. /\ RowInv /\ Owns(r) /\ request[r].key \in Keys
  BY DEF IInv, RequestInv, RequestOK, Owns
<1>2. messages[request[r].key].msgKey = None
  BY <1>1 DEF RowInv, RowOK, Owns
<1> QED
  BY <1>1, <1>2 DEF FindMessage, PushedReport, ProviderKey, Owns, Exists

(* A webhook keeps a report together with the row it belongs to. *)
LEMMA ReceiveReportStep ==
  ASSUME IInv, NEW w \in Webhooks, NEW r \in Requests, NEW s \in Statuses,
         ReceiveReport(w, r, s)
  PROVE  IInv'
<1> DEFINE report == PushedReport(r, s)
<1>1. TypeOK /\ RequestInv /\ RowInv /\ HookInv /\ CronInv /\ AckInv
  BY DEF IInv
<1>2. provider[r] # "none" /\ RequestOK(r) /\ s \in ReportableStatuses(r)
  BY <1>1 DEF ReceiveReport, ReportableStatuses, RequestInv
<1>3. UNCHANGED <<messages, announced, staged, attachedTo, channel, request, provider, cron, aged>>
  BY DEF ReceiveReport, rowVars, fileVars
<1>4. report \in Reports /\ report.status = s
  BY <1>1, <1>2, Constants DEF PushedReport, ProviderKey, Reports, RequestOK, Owns
<1>5. UNCHANGED acked
  BY <1>2, GatewayReportIsKnown DEF ReceiveReport
<1> DEFINE HooksAgree == /\ hook' \in [Webhooks -> HookStates]
                         /\ \A v \in Webhooks : hook'[v] = hook[v] \/ HookOK(v)'
<1>6. HooksAgree
  <2>1. CASE UNCHANGED hook
    BY <1>1, <2>1 DEF TypeOK
  <2>2. ASSUME NEW k \in FindMessage(report),
               hook' = [hook EXCEPT ![w] = [of |-> r, report |-> report, target |-> k]]
        PROVE  HooksAgree
    <3>1. k = request[r].key /\ (request[r].route = "lgu" => messages[k].msgKey = r)
      BY <1>2, PushedReportFindsItsRow
    <3>2. [of |-> r, report |-> report, target |-> k] \in HookStates
      BY <1>2, <1>4, <3>1 DEF HookStates, RequestOK, Owns
    <3>3. /\ hook' \in [Webhooks -> HookStates]
          /\ hook'[w] = [of |-> r, report |-> report, target |-> k]
          /\ \A v \in Webhooks \ {w} : hook'[v] = hook[v]
      BY <1>1, <2>2, <3>2 DEF TypeOK
    <3>4. HookOK(w)'
      BY <1>2, <1>3, <1>4, <3>1, <3>3 DEF HookOK, PushedReport, ProviderKey, ReportableStatuses
    <3> QED
      BY <3>3, <3>4
  <2> QED
    BY <2>1, <2>2 DEF ReceiveReport
<1>7. TypeOK'
  BY <1>1, <1>3, <1>5, <1>6 DEF TypeOK
<1>8. RequestInv' /\ RowInv'
  BY <1>1, <1>3 DEF RequestInv, RequestOK, Owns, Exists, RowInv, RowOK
<1>9. HookInv'
  <2>1. ASSUME NEW v \in Webhooks, hook'[v] = hook[v], hook'[v] # IdleHook
        PROVE  HookOK(v)'
    BY <1>1, <1>3, <2>1 DEF HookInv, HookOK, PushedReport, ProviderKey, ReportableStatuses
  <2> QED
    BY <1>6, <2>1 DEF HookInv, IdleHook
<1>10. CronInv' /\ AckInv'
  BY <1>1, <1>3, <1>5 DEF CronInv, Polled, ReportableStatuses, Exists, AckInv
<1>11. UploadsBelongToOneMessage'
  BY <1>3 DEF IInv, UploadsBelongToOneMessage, Exists
<1> QED
  BY <1>7, <1>8, <1>9, <1>10, <1>11 DEF IInv

(* What a report may do to the row it has found, of a request that holds   *)
(* its message: bind no foreign msgKey, and complete nothing unsent.       *)
Grounded(k, report) ==
  TransitionGuard(k, report) =>
    /\ report.msgKey \in {None, messages[k].msgKey}
    /\ report.status = "completed" => provider[messages[k].id] = "completed"

(* Applying a report that is grounded in the carrier's state preserves the *)
(* invariant, whatever has become of the row since it was looked up.       *)
LEMMA ApplyDeliveryReportStep ==
  ASSUME IInv, NEW k \in Keys, Exists(k), NEW report \in Reports, Grounded(k, report),
         ApplyDeliveryReport(k, report),
         \A w \in Webhooks : hook'[w] \in {hook[w], IdleHook},
         UNCHANGED <<fileVars, channel, request, provider, aged>>
  PROVE  /\ messages' \in [Keys -> Rows \union {None}]
         /\ announced' \in [Keys -> Seq(Statuses)]
         /\ RequestInv' /\ RowInv' /\ HookInv' /\ UploadsBelongToOneMessage'
         /\ \A j \in Keys : Exists(j) => Exists(j)'
         /\ \A rep : Polled(rep) => Polled(rep)'
         /\ \A r \in Requests : \A s \in Statuses :
              Owns(r) /\ messages[request[r].key].status \notin PreviousStatuses(s)
                => messages'[request[r].key].status \notin PreviousStatuses(s)
         /\ TransitionGuard(k, report) => messages'[k].status = report.status
         /\ ~TransitionGuard(k, report) => messages'[k] = messages[k]
<1>1. /\ TypeOK /\ RequestInv /\ RowInv /\ HookInv /\ UploadsBelongToOneMessage
      /\ messages[k] \in Rows /\ RowOK(k)
  BY DEF IInv, TypeOK, Exists, RowInv
<1>2. CASE TransitionGuard(k, report)
  <2> DEFINE row == [id |-> messages[k].id, status |-> report.status,
                     msgKey |-> IF messages[k].msgKey = None
                                THEN report.msgKey ELSE messages[k].msgKey]
  <2>1. WriteRow(k, row)
    BY <1>2 DEF ApplyDeliveryReport
  <2>2. row.msgKey = messages[k].msgKey
    BY <1>2 DEF Grounded
  <2>3. row \in Rows
    BY <1>1, <2>2 DEF Rows, Reports
  <2>4. /\ row.id = messages[k].id
        /\ messages[k].status \in PreviousStatuses(row.status)
        /\ messages[k].msgKey \in {None, row.msgKey}
        /\ row.msgKey # None => /\ row.msgKey = row.id
                                /\ request[row.id].route = "lgu"
                                /\ provider[row.id] # "none"
        /\ row.status = "completed" => provider[row.id] = "completed"
        /\ row.status = report.status
    BY <1>1, <1>2, <2>2 DEF Grounded, TransitionGuard, RowOK
  <2> HIDE DEF row
  <2> QED
    BY <1>2, <2>1, <2>3, <2>4, RisingRow
<1>3. CASE ~TransitionGuard(k, report)
  <2>1. UNCHANGED <<messages, announced>>
    BY <1>3 DEF ApplyDeliveryReport, rowVars
  <2>2. RequestInv' /\ RowInv' /\ UploadsBelongToOneMessage'
    BY <1>1, <2>1 DEF RequestInv, RequestOK, Owns, Exists, RowInv, RowOK, fileVars,
                      UploadsBelongToOneMessage
  <2>3. HookInv'
    BY <1>1, <2>1 DEF HookInv, HookOK, IdleHook, PushedReport, ProviderKey, ReportableStatuses
  <2> QED
    BY <1>1, <1>3, <2>1, <2>2, <2>3 DEF TypeOK, Exists, Polled, ReportableStatuses
<1> QED
  BY <1>2, <1>3

(* A webhook acknowledges only what the row has reached. *)
LEMMA ApplyHookStep ==
  ASSUME IInv, NEW w \in Webhooks, ApplyHook(w)
  PROVE  IInv'
<1> DEFINE r == hook[w].of
           report == hook[w].report
           k == hook[w].target
           s == report.status
<1>1. TypeOK /\ RequestInv /\ RowInv /\ HookInv /\ CronInv /\ AckInv
  BY DEF IInv
<1>2. /\ HookOK(w) /\ r \in Requests /\ provider[r] # "none" /\ k = request[r].key
      /\ report = PushedReport(r, s)
  BY <1>1 DEF ApplyHook, HookInv, HookOK
<1>3. /\ Owns(r) /\ request[r].route \in Routes /\ k \in Keys /\ Exists(k)
      /\ messages[k].id = r /\ RowOK(k)
  BY <1>1, <1>2 DEF RequestInv, RequestOK, Owns, RowInv
<1>4. s \in Statuses /\ (s = "completed" => provider[r] = "completed")
  BY <1>2 DEF HookOK, ReportableStatuses, Statuses
<1>5. report \in Reports
  BY <1>2, <1>3, <1>4, Constants DEF PushedReport, ProviderKey, Reports
<1>6. /\ report.msgKey \in {None, messages[k].msgKey}
      /\ (messages[k].status \in PreviousStatuses(s)) => TransitionGuard(k, report)
  <2>1. CASE request[r].route = "lgu"
    <3>1. report.msgKey = r /\ messages[k].msgKey = r
      BY <1>2, <2>1 DEF PushedReport, HookOK
    <3> QED
      BY <1>2, <3>1, Constants DEF TransitionGuard
  <2>2. CASE request[r].route # "lgu"
    <3>1. report.msgKey = None /\ report.clientKey = k
      BY <1>2, <2>2 DEF PushedReport, ProviderKey
    <3>2. messages[k].msgKey = None
      BY <1>3, <2>2 DEF RowOK
    <3> QED
      BY <3>1, <3>2 DEF TransitionGuard
  <2> QED
    BY <2>1, <2>2
<1>7. Grounded(k, report)
  BY <1>3, <1>4, <1>6 DEF Grounded
<1>8. /\ ApplyDeliveryReport(k, report)
      /\ hook' = [hook EXCEPT ![w] = IdleHook]
      /\ acked' = acked \union {<<r, s>>}
      /\ UNCHANGED <<fileVars, channel, request, provider, cron, aged>>
  BY DEF ApplyHook
<1>9. IdleHook \in HookStates
  BY DEF IdleHook, HookStates
<1>10. /\ hook' \in [Webhooks -> HookStates]
       /\ \A v \in Webhooks : hook'[v] \in {hook[v], IdleHook}
  BY <1>1, <1>8, <1>9 DEF TypeOK
<1> HIDE DEF k, report, s
<1>11. /\ messages' \in [Keys -> Rows \union {None}]
       /\ announced' \in [Keys -> Seq(Statuses)]
       /\ RequestInv' /\ RowInv' /\ HookInv' /\ UploadsBelongToOneMessage'
       /\ \A j \in Keys : Exists(j) => Exists(j)'
       /\ \A rep : Polled(rep) => Polled(rep)'
       /\ \A q \in Requests : \A t \in Statuses :
            Owns(q) /\ messages[request[q].key].status \notin PreviousStatuses(t)
              => messages'[request[q].key].status \notin PreviousStatuses(t)
       /\ TransitionGuard(k, report) => messages'[k].status = report.status
       /\ ~TransitionGuard(k, report) => messages'[k] = messages[k]
  BY <1>3, <1>5, <1>7, <1>8, <1>10, ApplyDeliveryReportStep
<1>12. messages'[k].status \notin PreviousStatuses(s)
  BY <1>4, <1>6, <1>11, LadderFacts DEF s
<1>13. TypeOK'
  <2>1. acked' \subseteq Requests \X Statuses
    BY <1>1, <1>2, <1>4, <1>8 DEF TypeOK
  <2> QED
    BY <1>1, <1>8, <1>10, <1>11, <2>1 DEF TypeOK, fileVars
<1>14. CronInv'
  BY <1>1, <1>8, <1>11 DEF CronInv
<1>15. AckInv'
  BY <1>1, <1>2, <1>8, <1>11, <1>12 DEF AckInv, RequestInv, RequestOK
<1> QED
  BY <1>11, <1>13, <1>14, <1>15 DEF IInv

(* Steps that leave every row, request and carrier as it is. *)
LEMMA QuietStep ==
  ASSUME IInv,
         UNCHANGED <<messages, announced, staged, attachedTo, request, provider, acked>>,
         channel' \in Channels,
         \A w \in Webhooks : hook'[w] \in {hook[w], IdleHook},
         hook' \in [Webhooks -> HookStates],
         cron' \in CronStates, CronInv',
         aged' \subseteq Keys
  PROVE  IInv'
<1>1. TypeOK /\ RequestInv /\ RowInv /\ HookInv /\ CronInv /\ AckInv
  BY DEF IInv
<1>2. TypeOK'
  BY <1>1 DEF TypeOK
<1>3. RequestInv' /\ RowInv' /\ AckInv'
  BY <1>1 DEF RequestInv, RequestOK, Owns, Exists, RowInv, RowOK, AckInv
<1>4. HookInv'
  BY <1>1 DEF HookInv, HookOK, IdleHook, PushedReport, ProviderKey, ReportableStatuses
<1>5. UploadsBelongToOneMessage'
  BY DEF IInv, UploadsBelongToOneMessage, Exists
<1> QED
  BY <1>2, <1>3, <1>4, <1>5 DEF IInv

(* A webhook that dies forgets its report and acknowledges nothing. *)
LEMMA HookDiesStep ==
  ASSUME IInv, NEW w \in Webhooks, HookDies(w)
  PROVE  IInv'
<1>1. TypeOK /\ CronInv
  BY DEF IInv
<1>2. hook' \in [Webhooks -> HookStates]
  BY <1>1 DEF HookDies, TypeOK, IdleHook, HookStates
<1>3. CronInv'
  BY <1>1 DEF HookDies, CronInv, Polled, ReportableStatuses, Exists, rowVars, carrierVars
<1> QED
  BY <1>1, <1>2, <1>3, QuietStep DEF HookDies, TypeOK, rowVars, fileVars, carrierVars

(* A message grows old. *)
LEMMA MessageAgesStep ==
  ASSUME IInv, NEW k \in Keys, MessageAges(k)
  PROVE  IInv'
<1>1. TypeOK /\ CronInv
  BY DEF IInv
<1>2. CronInv'
  BY <1>1 DEF MessageAges, CronInv, Polled, ReportableStatuses, Exists, rowVars, carrierVars
<1> QED
  BY <1>1, <1>2, QuietStep DEF MessageAges, TypeOK, rowVars, fileVars, carrierVars

(* The conversation adopts a channel; no request is rerouted. *)
LEMMA AdoptChannelStep ==
  ASSUME IInv, NEW c \in Routes, AdoptChannel(c)
  PROVE  IInv'
<1>1. TypeOK /\ CronInv
  BY DEF IInv
<1>2. CronInv'
  BY <1>1 DEF AdoptChannel, CronInv, Polled, ReportableStatuses, Exists, rowVars, carrierVars
<1> QED
  BY <1>1, <1>2, QuietStep DEF AdoptChannel, TypeOK, Channels, rowVars, fileVars, carrierVars

(* Every report of LGU+'s answer to a query is well grounded. *)
LEMMA PolledReportsArePolled ==
  ASSUME IInv, NEW k \in Keys, NEW report \in PolledReports(k)
  PROVE  report \in Reports /\ Polled(report)
<1> DEFINE known == {r \in Requests : /\ provider[r] # "none"
                                      /\ request[r].route = "lgu"
                                      /\ ProviderKey(r) = k}
<1>1. known = {}
  BY Constants DEF ProviderKey
<1>2. report = [clientKey |-> k, msgKey |-> None, status |-> "failed"]
  BY <1>1 DEF PolledReports
<1> QED
  BY <1>2 DEF Reports, Statuses, Polled

(* The reconciliation reads, asks and looks up without writing a row. *)
LEMMA CronStepsButApply ==
  ASSUME IInv, ReadPending \/ QueryLguDeliveryReports \/ TakeReply \/ CronDies
  PROVE  IInv'
<1>1. TypeOK /\ CronInv /\ cron \in CronStates
  BY DEF IInv, TypeOK
<1>2. /\ UNCHANGED <<messages, announced, staged, attachedTo, channel, request, provider,
                     acked, hook, aged>>
  BY DEF ReadPending, QueryLguDeliveryReports, TakeReply, CronDies, rowVars, fileVars, carrierVars
<1>3. \A report : Polled(report)' <=> Polled(report)
  BY <1>2 DEF Polled, ReportableStatuses
<1>4. CASE ReadPending
  <2>1. cron' = [cron EXCEPT !.pc = "query", !.todo = {k \in Keys : AwaitsReconciliation(k)}]
    BY <1>4 DEF ReadPending
  <2>2. cron' \in CronStates /\ CronInv'
    BY <1>1, <1>3, <2>1 DEF CronStates, CronInv
  <2> QED
    BY <1>1, <1>2, <2>2, QuietStep DEF TypeOK
<1>5. CASE QueryLguDeliveryReports
  <2>1. cron' = [cron EXCEPT !.pc = "reply", !.todo = {},
                             !.replies = UNION {PolledReports(k) : k \in cron.todo}]
    BY <1>5 DEF QueryLguDeliveryReports
  <2>2. cron.todo \subseteq Keys
    BY <1>1 DEF CronStates
  <2>3. \A report \in UNION {PolledReports(k) : k \in cron.todo} :
          report \in Reports /\ Polled(report)
    BY <2>2, PolledReportsArePolled
  <2>4. cron' \in CronStates /\ cron'.pc = "reply"
    BY <1>1, <2>1, <2>3 DEF CronStates
  <2>5. CronInv'
    BY <1>1, <1>3, <2>1, <2>3, <2>4 DEF CronStates, CronInv
  <2> QED
    BY <1>1, <1>2, <2>4, <2>5, QuietStep DEF TypeOK
<1>6. CASE TakeReply
  <2>1. CASE cron' = IdleCron
    <3>1. cron' \in CronStates /\ CronInv'
      BY <2>1 DEF IdleCron, CronStates, CronInv
    <3> QED
      BY <1>1, <1>2, <3>1, QuietStep DEF TypeOK
  <2>2. ASSUME NEW report \in cron.replies, cron' = [cron EXCEPT !.replies = @ \ {report}],
               cron.pc = "reply"
        PROVE  IInv'
    <3>1. cron' \in CronStates /\ CronInv'
      BY <1>1, <1>3, <2>2 DEF CronStates, CronInv
    <3> QED
      BY <1>1, <1>2, <3>1, QuietStep DEF TypeOK
  <2>3. ASSUME NEW report \in cron.replies, NEW k \in FindMessage(report),
               cron' = [cron EXCEPT !.pc = "apply", !.replies = @ \ {report},
                                    !.report = report, !.target = k]
        PROVE  IInv'
    <3>1. k \in Keys /\ Exists(k)
      BY DEF FindMessage
    <3>2. report \in Reports /\ Polled(report)
      BY <1>1 DEF CronStates, CronInv
    <3>3. cron' \in CronStates
      BY <1>1, <2>3, <3>1, <3>2 DEF CronStates
    <3>4. CronInv'
      BY <1>1, <1>2, <1>3, <2>3, <3>1, <3>2 DEF CronStates, CronInv, Exists
    <3> QED
      BY <1>1, <1>2, <3>3, <3>4, QuietStep DEF TypeOK
  <2> QED
    BY <1>6, <2>1, <2>2, <2>3 DEF TakeReply
<1>7. CASE CronDies
  <2>1. cron' \in CronStates /\ CronInv'
    BY <1>7 DEF CronDies, IdleCron, CronStates, CronInv
  <2> QED
    BY <1>1, <1>2, <2>1, QuietStep DEF TypeOK
<1> QED
  BY <1>4, <1>5, <1>6, <1>7

(* The reconciliation applies a report of LGU+ to the row it looked up. *)
LEMMA ApplyReplyStep ==
  ASSUME IInv, ApplyReply
  PROVE  IInv'
<1> DEFINE k == cron.target
           report == cron.report
<1>1. /\ TypeOK /\ RequestInv /\ RowInv /\ HookInv /\ CronInv /\ AckInv
      /\ cron \in CronStates
  BY DEF IInv, TypeOK
<1>2. k \in Keys /\ Exists(k) /\ report \in Reports /\ Polled(report) /\ RowOK(k)
  BY <1>1 DEF ApplyReply, CronInv, RowInv
<1>3. Grounded(k, report)
  <2>1. CASE report.msgKey = None /\ report.status = "failed"
    BY <2>1 DEF Grounded
  <2>2. CASE /\ report.msgKey \in Requests
             /\ report.clientKey = report.msgKey
             /\ report.status \in ReportableStatuses(report.msgKey)
    <3>1. TransitionGuard(k, report) => messages[k].msgKey = report.msgKey
      BY <1>2, <2>2, Constants DEF TransitionGuard
    <3>2. report.status = "completed" => provider[report.msgKey] = "completed"
      BY <2>2 DEF ReportableStatuses
    <3> QED
      BY <1>2, <2>2, <3>1, <3>2, Constants DEF Grounded, RowOK
  <2> QED
    BY <1>2, <2>1, <2>2 DEF Polled
<1>4. /\ ApplyDeliveryReport(k, report)
      /\ cron' = [cron EXCEPT !.pc = "reply", !.report = None, !.target = None]
      /\ UNCHANGED <<fileVars, channel, request, provider, acked, hook, aged>>
  BY DEF ApplyReply, carrierVars
<1> HIDE DEF k, report
<1>5. /\ messages' \in [Keys -> Rows \union {None}]
      /\ announced' \in [Keys -> Seq(Statuses)]
      /\ RequestInv' /\ RowInv' /\ HookInv' /\ UploadsBelongToOneMessage'
      /\ \A rep : Polled(rep) => Polled(rep)'
      /\ \A q \in Requests : \A t \in Statuses :
           Owns(q) /\ messages[request[q].key].status \notin PreviousStatuses(t)
             => messages'[request[q].key].status \notin PreviousStatuses(t)
  BY <1>2, <1>3, <1>4, ApplyDeliveryReportStep
<1>6. cron' \in CronStates /\ cron'.pc = "reply" /\ cron'.replies = cron.replies
  BY <1>1, <1>4 DEF CronStates
<1>7. TypeOK'
  BY <1>1, <1>4, <1>5, <1>6 DEF TypeOK, fileVars
<1>8. CronInv'
  BY <1>1, <1>5, <1>6 DEF CronInv
<1>9. AckInv'
  BY <1>1, <1>4, <1>5 DEF AckInv, RequestInv, RequestOK
<1> QED
  BY <1>5, <1>7, <1>8, <1>9 DEF IInv

-----------------------------------------------------------------------------
(***************************************************************************)
(* The invariant and what follows from it.                                 *)
(***************************************************************************)
LEMMA StutterStep ==
  ASSUME IInv, UNCHANGED vars
  PROVE  IInv'
<1>1. TypeOK /\ CronInv
  BY DEF IInv
<1>2. CronInv'
  BY <1>1 DEF vars, CronInv, Polled, ReportableStatuses, Exists
<1> QED
  BY <1>1, <1>2, QuietStep DEF vars, TypeOK

(* Every step of Next, and stuttering, preserves the invariant. *)
LEMMA IInvIsInductive == IInv /\ [Next]_vars => IInv'
BY LoadExistingMessageStep, HandlerSteps, ProviderAdvancesStep, ReceiveReportStep,
   ApplyHookStep, HookDiesStep, CronStepsButApply, ApplyReplyStep, MessageAgesStep,
   AdoptChannelStep, StutterStep
   DEF Next, CronStep

(* The inductive invariant holds of every behaviour of Delivery: what a    *)
(* handler, a webhook or the cron holds over an await agrees with the row. *)
THEOREM InductiveInvariant == Spec => []IInv
BY InitIInv, IInvIsInductive, PTL DEF Spec

(* TypeOK for any number of messages, requests, uploads and webhooks. *)
THEOREM TypeCorrect == Spec => []TypeOK
<1>1. IInv => TypeOK
  BY DEF IInv
<1> QED
  BY <1>1, InductiveInvariant, PTL

(* A report that a carrier saw acknowledged is in the row (hooks-report.ts *)
(* and hooks-sms-gateway.ts answer 2xx only after applyDeliveryReports).   *)
THEOREM AckedReportsAreKept == Spec => []AckedReportsAreInTheRow
<1>1. IInv => AckedReportsAreInTheRow
  BY DEF IInv, AckInv, RequestInv, RequestOK, Owns, AckedReportsAreInTheRow
<1> QED
  BY <1>1, InductiveInvariant, PTL

(* No message shows as 완료 unless its carrier delivered it, whichever of  *)
(* the send, the webhooks and the cron wrote the row.                      *)
THEOREM CompletedMeansDelivered == Spec => []CompletedIsGenuine
<1>1. IInv => CompletedIsGenuine
  BY DEF IInv, RowInv, RowOK, CompletedIsGenuine
<1> QED
  BY <1>1, InductiveInvariant, PTL

(* Racing requests never share or lose a staged upload. *)
THEOREM UploadsAreNotShared == Spec => []UploadsBelongToOneMessage
<1>1. IInv => UploadsBelongToOneMessage
  BY DEF IInv
<1> QED
  BY <1>1, InductiveInvariant, PTL

(* What a step can do to the rows: nothing, insert one, or raise one. *)
Inserts(k) ==
  /\ ~Exists(k)
  /\ \E r \in Requests : WriteRow(k, [id |-> r, status |-> "pending", msgKey |-> None])

Raises(k) ==
  /\ Exists(k)
  /\ \E row \in Rows : /\ WriteRow(k, row)
                      /\ row.id = messages[k].id
                      /\ messages[k].status \in PreviousStatuses(row.status)
                      /\ messages[k].msgKey \in {None, row.msgKey}

(* A report that is applied raises one row or leaves all of them. *)
LEMMA ReportsRaise ==
  ASSUME IInv, NEW k \in Keys, Exists(k), NEW report \in Reports,
         ApplyDeliveryReport(k, report)
  PROVE  UNCHANGED rowVars \/ Raises(k)
<1>1. messages[k] \in Rows
  BY DEF IInv, TypeOK, Exists
<1>2. CASE TransitionGuard(k, report)
  <2> DEFINE row == [id |-> messages[k].id, status |-> report.status,
                     msgKey |-> IF messages[k].msgKey = None
                                THEN report.msgKey ELSE messages[k].msgKey]
  <2>1. row \in Rows
    BY <1>1 DEF Rows, Reports
  <2>2. WriteRow(k, row)
    BY <1>2 DEF ApplyDeliveryReport
  <2>3. /\ row.id = messages[k].id
        /\ messages[k].status \in PreviousStatuses(row.status)
        /\ messages[k].msgKey \in {None, row.msgKey}
    BY <1>2 DEF TransitionGuard
  <2> HIDE DEF row
  <2> QED
    BY <2>1, <2>2, <2>3 DEF Raises
<1> QED
  BY <1>2 DEF ApplyDeliveryReport

(* A recorded result raises one row or leaves all of them. *)
LEMMA ResultsRaise ==
  ASSUME IInv, NEW r \in Requests, RecordDeliveryResult(r)
  PROVE  UNCHANGED rowVars \/ Raises(request[r].key)
<1> DEFINE k == request[r].key
           row == [id |-> messages[k].id, status |-> request[r].result.status,
                   msgKey |-> request[r].result.msgKey]
<1>1. /\ RequestOK(r) /\ request[r].pc = "record" /\ k \in Keys /\ Exists(k)
      /\ messages[k] \in Rows /\ RowOK(k)
  BY DEF IInv, RequestInv, RequestOK, RowInv, RecordDeliveryResult, Owns, TypeOK, Exists
<1>2. CASE messages[k].status = "pending"
  <2>1. WriteRow(k, row)
    BY <1>2 DEF RecordDeliveryResult
  <2>2. row \in Rows /\ row.status # "pending"
    BY <1>1 DEF RequestOK, Results, Rows
  <2>3. messages[k].status \in PreviousStatuses(row.status)
    BY <1>2, <2>2 DEF PreviousStatuses, Rows, Statuses, Terminal
  <2>4. messages[k].msgKey \in {None, row.msgKey} /\ row.id = messages[k].id
    BY <1>1, <1>2 DEF RowOK
  <2> HIDE DEF row
  <2> QED
    BY <1>1, <2>1, <2>2, <2>3, <2>4 DEF Raises
<1> QED
  BY <1>2 DEF RecordDeliveryResult

(* Every step inserts one row, raises one row or leaves all of them. *)
LEMMA StepKinds ==
  ASSUME IInv, [Next]_vars
  PROVE  \/ UNCHANGED rowVars
         \/ \E k \in Keys : Inserts(k) /\ UNCHANGED provider
         \/ \E k \in Keys : Raises(k) /\ UNCHANGED provider
<1>1. ASSUME NEW r \in Requests, CreateMessage(r)
      PROVE  UNCHANGED rowVars \/ \E k \in Keys : Inserts(k) /\ UNCHANGED provider
  <2>1. request[r].key \in Keys
    BY <1>1 DEF IInv, RequestInv, RequestOK, CreateMessage
  <2> QED
    BY <1>1, <2>1 DEF CreateMessage, Inserts, carrierVars
<1>2. ASSUME NEW r \in Requests, RecordDeliveryResult(r)
      PROVE  UNCHANGED rowVars \/ \E k \in Keys : Raises(k) /\ UNCHANGED provider
  <2>1. request[r].key \in Keys
    BY <1>2 DEF IInv, RequestInv, RequestOK, RecordDeliveryResult
  <2> QED
    BY <1>2, <2>1, ResultsRaise DEF RecordDeliveryResult, carrierVars
<1>3. ASSUME NEW w \in Webhooks, ApplyHook(w)
      PROVE  UNCHANGED rowVars \/ \E k \in Keys : Raises(k) /\ UNCHANGED provider
  <2>1. HookOK(w) /\ Owns(hook[w].of) /\ hook[w].target = request[hook[w].of].key
    BY <1>3 DEF IInv, ApplyHook, HookInv, HookOK, RequestInv, RequestOK
  <2>2. hook[w].report \in Reports
    <3>1. hook[w].report.status \in Statuses
      BY <2>1 DEF HookOK, ReportableStatuses, Statuses
    <3>2. request[hook[w].of].route \in Routes /\ hook[w].of \in Requests
      BY <2>1 DEF IInv, HookOK, RequestInv, RequestOK
    <3>3. hook[w].report = PushedReport(hook[w].of, hook[w].report.status)
      BY <2>1 DEF HookOK
    <3> QED
      BY <2>1, <3>1, <3>2, <3>3 DEF PushedReport, ProviderKey, Reports, Owns
  <2> QED
    BY <1>3, <2>1, <2>2, ReportsRaise DEF ApplyHook, Owns
<1>4. CASE ApplyReply
  <2>1. cron.target \in Keys /\ Exists(cron.target) /\ cron.report \in Reports
    BY <1>4 DEF IInv, CronInv, ApplyReply
  <2> QED
    BY <1>4, <2>1, ReportsRaise DEF ApplyReply, carrierVars
<1>5. ASSUME NEW r \in Requests,
             \/ LoadSendContext(r) \/ UploadAttachments(r) \/ SendTextMessage(r)
             \/ SendGatewayTextMessage(r) \/ RequestDies(r) \/ ProviderAdvances(r)
             \/ \E k \in Keys : LoadExistingMessage(r, k)
      PROVE  UNCHANGED rowVars
  BY <1>5 DEF LoadSendContext, UploadAttachments, SendTextMessage, SendGatewayTextMessage,
              RequestDies, ProviderAdvances, LoadExistingMessage
<1>6. ASSUME \/ \E w \in Webhooks : \E r \in Requests : \E s \in Statuses : ReceiveReport(w, r, s)
             \/ \E w \in Webhooks : HookDies(w)
             \/ ReadPending \/ QueryLguDeliveryReports \/ TakeReply \/ CronDies
             \/ \E k \in Keys : MessageAges(k)
             \/ \E c \in Routes : AdoptChannel(c)
             \/ UNCHANGED vars
      PROVE  UNCHANGED rowVars
  BY <1>6 DEF ReceiveReport, HookDies, ReadPending, QueryLguDeliveryReports, TakeReply,
              CronDies, MessageAges, AdoptChannel, vars, rowVars
<1> QED
  BY <1>1, <1>2, <1>3, <1>4, <1>5, <1>6 DEF Next, RequestStep, CronStep

(* The delivery status only rises and a bound msgKey is never exchanged,   *)
(* for any interleaving of any number of handlers, webhooks and cron runs. *)
THEOREM RowsOnlyRise == Spec => RowOnlyRises
<1> DEFINE Rises == \A k \in Keys : (Exists(k) /\ messages'[k] # messages[k]) =>
                      /\ messages[k].status \in PreviousStatuses(messages'[k].status)
                      /\ messages'[k].id = messages[k].id
                      /\ messages[k].msgKey \in {None, messages'[k].msgKey}
<1>1. IInv /\ [Next]_vars => [Rises]_messages
  <2> SUFFICES ASSUME IInv, [Next]_vars PROVE [Rises]_messages
    OBVIOUS
  <2>1. messages \in [Keys -> Rows \union {None}]
    BY DEF IInv, TypeOK
  <2>2. CASE UNCHANGED rowVars
    BY <2>2 DEF rowVars
  <2>3. ASSUME NEW k \in Keys, Inserts(k) PROVE Rises
    BY <2>1, <2>3 DEF Inserts, WriteRow
  <2>4. ASSUME NEW k \in Keys, Raises(k) PROVE Rises
    <3>1. PICK row \in Rows : /\ WriteRow(k, row)
                              /\ row.id = messages[k].id
                              /\ messages[k].status \in PreviousStatuses(row.status)
                              /\ messages[k].msgKey \in {None, row.msgKey}
      BY <2>4 DEF Raises
    <3>2. /\ messages'[k] = row
          /\ \A j \in Keys \ {k} : messages'[j] = messages[j]
      BY <2>1, <3>1 DEF WriteRow
    <3> QED
      BY <3>1, <3>2
  <2> QED
    BY <2>2, <2>3, <2>4, StepKinds
<1> QED
  BY <1>1, InductiveInvariant, PTL DEF Spec, RowOnlyRises

-----------------------------------------------------------------------------
(***************************************************************************)
(* Delivery implements DeliveryLifecycle.                                  *)
(***************************************************************************)
HandOvers(k) == {r \in Requests : provider[r] # "none" /\ request[r].key = k}

StatusOf(k) == IF Exists(k) THEN messages[k].status ELSE "none"

(* Hand-overs are made by requests that call a carrier, once per message.  *)
LEMMA HandOverKinds ==
  ASSUME IInv, [Next]_vars
  PROVE  \/ \A k \in Keys : HandOvers(k)' = HandOvers(k)
         \/ /\ UNCHANGED rowVars
            /\ \E k \in Keys : \E r \in Requests :
                 /\ Exists(k)
                 /\ HandOvers(k) = {} /\ HandOvers(k)' = {r}
                 /\ \A j \in Keys \ {k} : HandOvers(j)' = HandOvers(j)
<1>0. TypeOK /\ RequestInv
  BY DEF IInv
<1>1. CASE /\ UNCHANGED provider
           /\ \A q \in Requests : provider[q] # "none" => request'[q].key = request[q].key
  BY <1>1 DEF HandOvers
<1>2. ASSUME NEW r \in Requests, SendTextMessage(r) \/ SendGatewayTextMessage(r)
      PROVE  \/ \A k \in Keys : HandOvers(k)' = HandOvers(k)
             \/ /\ UNCHANGED rowVars
                /\ \E k \in Keys : \E q \in Requests :
                     /\ Exists(k)
                     /\ HandOvers(k) = {} /\ HandOvers(k)' = {q}
                     /\ \A j \in Keys \ {k} : HandOvers(j)' = HandOvers(j)
  <2> DEFINE k == request[r].key
  <2>1. /\ RequestOK(r) /\ request[r].pc = "call" /\ provider[r] = "none"
        /\ Owns(r) /\ k \in Keys /\ Exists(k)
    BY <1>0, <1>2 DEF RequestInv, RequestOK, Owns, SendTextMessage, SendGatewayTextMessage
  <2>2. /\ \A q \in Requests : request'[q].key = request[q].key
        /\ \A q \in Requests \ {r} : provider'[q] = provider[q]
        /\ UNCHANGED rowVars
    <3>1. request[r] \in RequestStates
      BY <1>0 DEF TypeOK
    <3>2. GoTo(r, "over") \/ \E result : SetResult(r, result)
      BY <1>2 DEF SendTextMessage, SendGatewayTextMessage
    <3>3. /\ \A q \in Requests \ {r} : request'[q] = request[q]
          /\ request'[r].key = request[r].key
      BY <1>0, <3>1, <3>2 DEF GoTo, SetResult, TypeOK, RequestStates
    <3> QED
      BY <1>0, <1>2, <3>3 DEF SendTextMessage, SendGatewayTextMessage, TypeOK
  <2>3. HandOvers(k) = {}
    <3> SUFFICES ASSUME NEW q \in Requests, provider[q] # "none", request[q].key = k
                 PROVE  FALSE
      BY DEF HandOvers
    <3>1. Owns(q)
      BY <1>0 DEF RequestInv, RequestOK
    <3> QED
      BY <2>1, <3>1 DEF Owns
  <2>4. \A j \in Keys \ {k} : HandOvers(j)' = HandOvers(j)
    BY <2>2 DEF HandOvers
  <2>5. HandOvers(k)' = IF provider'[r] = "none" THEN {} ELSE {r}
    BY <2>2, <2>3 DEF HandOvers
  <2> QED
    BY <2>1, <2>2, <2>3, <2>4, <2>5
<1>3. ASSUME NEW r \in Requests, ProviderAdvances(r)
      PROVE  \A k \in Keys : HandOvers(k)' = HandOvers(k)
  <2>1. request' = request /\ \A q \in Requests : provider'[q] = "none" <=> provider[q] = "none"
    BY <1>0, <1>3 DEF ProviderAdvances, TypeOK, Terminal
  <2> QED
    BY <2>1 DEF HandOvers
<1>4. ASSUME NEW r \in Requests, NEW k \in Keys, LoadExistingMessage(r, k)
      PROVE  /\ UNCHANGED provider
             /\ \A q \in Requests : provider[q] # "none" => request'[q].key = request[q].key
  BY <1>0, <1>4 DEF LoadExistingMessage, RequestInv, RequestOK, TypeOK, carrierVars
<1>5. ASSUME NEW r \in Requests, LoadSendContext(r)
      PROVE  /\ UNCHANGED provider
             /\ \A q \in Requests : provider[q] # "none" => request'[q].key = request[q].key
  BY <1>0, <1>5 DEF LoadSendContext, RequestInv, RequestOK, TypeOK, carrierVars
<1>6. ASSUME NEW r \in Requests,
             \/ CreateMessage(r) \/ UploadAttachments(r) \/ RecordDeliveryResult(r) \/ RequestDies(r)
      PROVE  /\ UNCHANGED provider
             /\ \A q \in Requests : provider[q] # "none" => request'[q].key = request[q].key
  <2>1. UNCHANGED provider /\ request[r] \in RequestStates
    BY <1>0, <1>6 DEF CreateMessage, UploadAttachments, RecordDeliveryResult, RequestDies, carrierVars, TypeOK
  <2>2. \A q \in Requests \ {r} : request'[q] = request[q]
    BY <1>0, <1>6 DEF CreateMessage, UploadAttachments, RecordDeliveryResult, RequestDies,
                      GoTo, SetResult, TypeOK
  <2>3. request'[r].key = request[r].key
    BY <1>0, <1>6, <2>1 DEF CreateMessage, UploadAttachments, RecordDeliveryResult, RequestDies,
                      GoTo, SetResult, TypeOK, RequestStates
  <2> QED
    BY <2>1, <2>2, <2>3
<1>7. ASSUME \/ \E w \in Webhooks : \/ \E r \in Requests : \E s \in Statuses : ReceiveReport(w, r, s)
                                   \/ ApplyHook(w) \/ HookDies(w)
             \/ ReadPending \/ QueryLguDeliveryReports \/ TakeReply \/ ApplyReply \/ CronDies
             \/ \E k \in Keys : MessageAges(k)
             \/ \E c \in Routes : AdoptChannel(c)
             \/ UNCHANGED vars
      PROVE  UNCHANGED provider /\ UNCHANGED request
  BY <1>7 DEF ReceiveReport, ApplyHook, HookDies, ReadPending, QueryLguDeliveryReports, TakeReply,
              ApplyReply, CronDies, MessageAges, AdoptChannel, vars, carrierVars
<1> QED
  BY <1>1, <1>2, <1>3, <1>4, <1>5, <1>6, <1>7 DEF Next, RequestStep, CronStep

(* The ladder of a report is the ladder of Rank. *)
LEMMA StatusesRank ==
  ASSUME NEW s \in Statuses, NEW t \in Statuses, s \in PreviousStatuses(t)
  PROVE  Lifecycle!Rank(s) < Lifecycle!Rank(t)
BY DEF PreviousStatuses, Lifecycle!Rank, Statuses, Terminal

(* The initial states of Delivery are initial states of the lifecycle. *)
LEMMA InitRefines == Init => Lifecycle!Init
BY DEF Init, Lifecycle!Init, Exists

(* Every step of Delivery is a step of the lifecycle or leaves it alone. *)
LEMMA StepRefines ==
  ASSUME IInv, [Next]_vars
  PROVE  [Lifecycle!Next]_(Lifecycle!vars)
<1> DEFINE status == [k \in Keys |-> IF Exists(k) THEN messages[k].status ELSE "none"]
           handed == [k \in Keys |-> HandOvers(k)]
<1>0. TypeOK
  BY DEF IInv
<1>1. ASSUME NEW k \in Keys, Exists(k),
             UNCHANGED rowVars, HandOvers(k) = {},
             NEW r \in Requests, HandOvers(k)' = {r},
             \A j \in Keys \ {k} : HandOvers(j)' = HandOvers(j)
      PROVE  Lifecycle!HandOver(k)
  <2>1. handed' = [handed EXCEPT ![k] = {r}]
    BY <1>1
  <2>2. status[k] # "none"
    BY <1>0, <1>1 DEF TypeOK, Exists, Rows, Statuses
  <2>3. status' = status /\ announced' = announced
    BY <1>1 DEF rowVars, Exists
  <2> QED
    BY <1>1, <2>1, <2>2, <2>3 DEF Lifecycle!HandOver, HandOvers
<1>2. ASSUME NEW k \in Keys, Inserts(k), handed' = handed
      PROVE  Lifecycle!Create(k)
  <2>1. PICK r \in Requests :
          WriteRow(k, [id |-> r, status |-> "pending", msgKey |-> None])
    BY <1>2 DEF Inserts
  <2>2. [id |-> r, status |-> "pending", msgKey |-> None] \in Rows
    BY DEF Rows, Statuses
  <2>3. status[k] = "none" /\ status' = [status EXCEPT ![k] = "pending"]
    BY <1>0, <1>2, <2>1, <2>2, Constants DEF Inserts, WriteRow, TypeOK, Exists
  <2>4. announced' = [announced EXCEPT ![k] = Append(@, "pending")]
    BY <2>1 DEF WriteRow
  <2> QED
    BY <1>2, <2>3, <2>4 DEF Lifecycle!Create, Lifecycle!Rise, Lifecycle!Rank, HandOvers
<1>3. ASSUME NEW k \in Keys, Raises(k), handed' = handed
      PROVE  Lifecycle!Advance(k)
  <2>1. PICK row \in Rows : /\ WriteRow(k, row)
                            /\ messages[k].status \in PreviousStatuses(row.status)
    BY <1>3 DEF Raises
  <2>2. /\ status[k] = messages[k].status /\ status[k] \in Statuses
        /\ row.status \in Statuses
    BY <1>0, <1>3 DEF Raises, TypeOK, Exists, Rows
  <2>3. status' = [status EXCEPT ![k] = row.status]
    BY <1>0, <1>3, <2>1, Constants DEF Raises, WriteRow, TypeOK, Exists
  <2>4. announced' = [announced EXCEPT ![k] = Append(@, row.status)]
    BY <2>1 DEF WriteRow
  <2>5. Lifecycle!Rank(status[k]) < Lifecycle!Rank(row.status)
    BY <2>1, <2>2, StatusesRank
  <2>6. status[k] # "none" /\ row.status \in Lifecycle!Statuses
    BY <2>2 DEF Statuses, Lifecycle!Statuses
  <2>7. Lifecycle!Rise(k, row.status)
    BY <2>3, <2>4, <2>5 DEF Lifecycle!Rise
  <2> QED
    BY <1>3, <2>6, <2>7 DEF Lifecycle!Advance, HandOvers
<1>4. UNCHANGED rowVars => status' = status /\ announced' = announced
  BY DEF rowVars, Exists
<1>5. CASE \A k \in Keys : HandOvers(k)' = HandOvers(k)
  <2>1. handed' = handed
    BY <1>5
  <2>2. CASE UNCHANGED rowVars
    BY <1>4, <2>1, <2>2 DEF Lifecycle!vars, HandOvers
  <2>3. CASE \E k \in Keys : Inserts(k)
    BY <1>2, <2>1, <2>3 DEF Lifecycle!Next
  <2>4. CASE \E k \in Keys : Raises(k)
    BY <1>3, <2>1, <2>4 DEF Lifecycle!Next
  <2> QED
    BY <2>2, <2>3, <2>4, StepKinds
<1> QED
  BY <1>1, <1>5, HandOverKinds DEF Lifecycle!Next

(* The interleaved handlers, webhooks and cron implement the life cycle a  *)
(* member relies on: one message and one hand-over per client key, a       *)
(* status that only rises, each change announced by the step that made it. *)
THEOREM DeliveryImplementsLifecycle == Spec => ImplementsLifecycle
<1>1. IInv /\ [Next]_vars => [Lifecycle!Next]_(Lifecycle!vars)
  BY StepRefines
<1> QED
  BY <1>1, InitRefines, InductiveInvariant, PTL DEF Spec, ImplementsLifecycle, Lifecycle!Spec

=============================================================================
