------------------------------ MODULE Delivery ------------------------------
(***************************************************************************)
(* The outbound message path of one conversation: the POST handler of      *)
(* worker/routes/messages-send.ts, the delivery report webhooks of LGU+    *)
(* and of the SMS gateway app, the reconciliation cron of                  *)
(* worker/scheduled.ts, and worker/db/delivery.ts where their reports meet *)
(* the message row.                                                        *)
(*                                                                         *)
(* Every awaited database batch, provider call or read is a step of its    *)
(* own, so handlers, webhooks and the cron interleave between them; a D1   *)
(* batch is one atomic step.  A request may die between two steps (worker  *)
(* eviction, D1 error: the code answers 500 and leaves the row), and the   *)
(* browser may post the same client key again at any time.                 *)
(*                                                                         *)
(* Delivery statuses: "pending" is the code's 대기, "accepted" 접수,       *)
(* "sending" 전송중, "completed" 완료, "failed" 실패.                      *)
(***************************************************************************)
EXTENDS Naturals, Sequences, FiniteSets

CONSTANTS
  Keys,            \* client keys the browser generates, one per composed message
  Requests,        \* POST invocations; each brings a fresh message id, itself
  Files,           \* staged outbound attachment uploads
  FilesOf,         \* the uploads the body posted with a client key refers to
  Webhooks,        \* delivery report webhook invocations
  InitialChannels, \* channels the conversation may have at the start
  DefaultChannel,  \* device kind of the office's default channel
  SlowRequests,    \* may a request still run when its message is 2 minutes old?
  None

Routes == {"lgu", "device"}      \* office_channels.device_id IS NULL, or not
Channels == Routes \union {"unset"}

ASSUME ConstantsAssumption ==
  /\ FilesOf \in [Keys -> SUBSET Files]
  /\ InitialChannels \subseteq Channels
  /\ DefaultChannel \in Routes
  /\ SlowRequests \in BOOLEAN

Statuses == {"pending", "accepted", "sending", "completed", "failed"}
Terminal == {"completed", "failed"}

(* The statuses a report may move a row away from. *)
PreviousStatuses(s) ==
  CASE s = "accepted" -> {"pending"}
    [] s = "sending"  -> {"pending", "accepted"}
    [] s \in Terminal -> {"pending", "accepted", "sending"}
    [] OTHER          -> {}

VARIABLES
  messages,    \* rows of the messages table, by client key
  announced,   \* statuses published for a message, in office_seq order
  staged,      \* rows of outbound_attachment_uploads
  attachedTo,  \* message_attachments: the client key an upload went to
  channel,     \* the conversation's own office_channel, "unset" if NULL
  request,     \* local state of each POST invocation
  provider,    \* what the carrier has done with the message a request gave it
  hook,        \* local state of each webhook invocation
  cron,        \* local state of the reconciliation run
  aged,        \* client keys whose message is at least 2 minutes old
  acked        \* reports a carrier has seen acknowledged with a 2xx answer

vars == <<messages, announced, staged, attachedTo, channel, request, provider,
          hook, cron, aged, acked>>

rowVars == <<messages, announced>>
fileVars == <<staged, attachedTo>>
carrierVars == <<provider, acked>>

Rows == [id : Requests, status : Statuses, msgKey : Requests \union {None}]

(* Client keys and message ids are UUIDs of two generators, the browser's   *)
(* and the Worker's; None is SQL's NULL.                                    *)
ASSUME IdentityAssumption ==
  /\ None \notin Keys \union Requests \union Rows
  /\ Keys \intersect Requests = {}

Results == [status : Statuses, msgKey : Requests \union {None}]

(* A delivery report as worker/db/delivery.ts sees it.  LGU+ reports carry *)
(* the cliKey and the msgKey of the submission, the gateway's only the     *)
(* client key.                                                             *)
Reports == [clientKey : Keys \union Requests,
            msgKey : Requests \union {None},
            status : Statuses]

RequestPcs == {"idle", "prepare", "create", "upload", "call", "record", "over"}

RequestStates == [pc : RequestPcs, key : Keys \union {None},
                  route : Routes \union {None}, result : Results \union {None}]
HookStates == [of : Requests \union {None}, report : Reports \union {None},
               target : Keys \union {None}]
CronStates == [pc : {"idle", "query", "reply", "apply"}, todo : SUBSET Keys,
               replies : SUBSET Reports, report : Reports \union {None},
               target : Keys \union {None}]
ProviderStates == {"none", "accepted", "sending"} \union Terminal

TypeOK ==
  /\ messages \in [Keys -> Rows \union {None}]
  /\ announced \in [Keys -> Seq(Statuses)]
  /\ staged \subseteq Files
  /\ attachedTo \in [Files -> Keys \union {None}]
  /\ channel \in Channels
  /\ request \in [Requests -> RequestStates]
  /\ provider \in [Requests -> ProviderStates]
  /\ hook \in [Webhooks -> HookStates]
  /\ cron \in CronStates
  /\ aged \subseteq Keys
  /\ acked \subseteq Requests \X Statuses

IdleCron == [pc |-> "idle", todo |-> {}, replies |-> {}, report |-> None,
             target |-> None]
IdleHook == [of |-> None, report |-> None, target |-> None]

Init ==
  /\ messages = [k \in Keys |-> None]
  /\ announced = [k \in Keys |-> << >>]
  /\ staged = Files
  /\ attachedTo = [f \in Files |-> None]
  /\ channel \in InitialChannels
  /\ request = [r \in Requests |->
                  [pc |-> "idle", key |-> None, route |-> None, result |-> None]]
  /\ provider = [r \in Requests |-> "none"]
  /\ hook = [w \in Webhooks |-> IdleHook]
  /\ cron = IdleCron
  /\ aged = {}
  /\ acked = {}

Exists(k) == messages[k] # None

(* One batch that changes a row publishes its new status in the same       *)
(* transaction: both statements carry the same guard.                      *)
WriteRow(k, row) ==
  /\ messages' = [messages EXCEPT ![k] = row]
  /\ announced' = [announced EXCEPT ![k] = Append(@, row.status)]

-----------------------------------------------------------------------------
(***************************************************************************)
(* sendMessage, the POST handler.                                          *)
(***************************************************************************)
GoTo(r, pc) == request' = [request EXCEPT ![r].pc = pc]

(* The request names its client key; a message already stored under the    *)
(* key answers the request at once.                                        *)
LoadExistingMessage(r, k) ==
  /\ request[r].pc = "idle"
  /\ request' = [request EXCEPT ![r] =
       [@ EXCEPT !.key = k, !.pc = IF Exists(k) THEN "over" ELSE "prepare"]]
  /\ UNCHANGED <<rowVars, fileVars, channel, carrierVars, hook, cron, aged>>

(* loadSendContext falls back to the default channel of the office, and    *)
(* prepareAttachments reads the staged uploads; a missing upload, or an    *)
(* attachment on a business phone, ends the request.                       *)
LoadSendContext(r) ==
  LET route == IF channel = "unset" THEN DefaultChannel ELSE channel
      files == FilesOf[request[r].key]
  IN /\ request[r].pc = "prepare"
     /\ request' = [request EXCEPT ![r] =
          [@ EXCEPT !.route = route,
                    !.pc = IF files \subseteq staged /\ (route = "device" => files = {})
                           THEN "create" ELSE "over"]]
     /\ UNCHANGED <<rowVars, fileVars, channel, carrierVars, hook, cron, aged>>

(* Mutant: a request that lost the race for its key goes on to the carrier. *)
CreateMessageIgnoringConflict(r) ==
  LET k == request[r].key
  IN /\ request[r].pc = "create"
     /\ GoTo(r, "call")
     /\ IF Exists(k)
        THEN UNCHANGED <<rowVars, fileVars>>
        ELSE /\ WriteRow(k, [id |-> r, status |-> "pending", msgKey |-> None])
             /\ UNCHANGED fileVars
     /\ UNCHANGED <<channel, carrierVars, hook, cron, aged>>

(* Mutant: the uploads are re-bound to the message created last. *)
CreateMessageStealingUploads(r) ==
  LET k == request[r].key
      files == FilesOf[k]
  IN /\ request[r].pc = "create"
     /\ ~Exists(k)
     /\ WriteRow(k, [id |-> r, status |-> "pending", msgKey |-> None])
     /\ attachedTo' = [f \in Files |-> IF f \in files THEN k ELSE attachedTo[f]]
     /\ staged' = staged \ files
     /\ GoTo(r, "upload")
     /\ UNCHANGED <<channel, carrierVars, hook, cron, aged>>

(* The creation batch.  ON CONFLICT(client_key) DO NOTHING turns it into a *)
(* no-op for a key that is taken; an attachment id that is already bound   *)
(* to a message breaks the primary key and rolls the whole batch back.     *)
CreateMessage(r) ==
  LET k == request[r].key
      files == FilesOf[k]
  IN /\ request[r].pc = "create"
     /\ IF Exists(k) \/ \E f \in files : attachedTo[f] # None
        THEN /\ GoTo(r, "over")
             /\ UNCHANGED <<rowVars, fileVars>>
        ELSE /\ WriteRow(k, [id |-> r, status |-> "pending", msgKey |-> None])
             /\ attachedTo' = [f \in Files |-> IF f \in files THEN k ELSE attachedTo[f]]
             /\ staged' = staged \ files
             /\ GoTo(r, IF files = {} THEN "call" ELSE "upload")
     /\ UNCHANGED <<channel, carrierVars, hook, cron, aged>>

SetResult(r, result) ==
  request' = [request EXCEPT ![r] = [@ EXCEPT !.pc = "record", !.result = result]]

(* uploadAttachmentsToLgu: a failed upload is recorded as a failed send    *)
(* and the message is never handed over.                                   *)
UploadAttachments(r) ==
  /\ request[r].pc = "upload"
  /\ \/ GoTo(r, "call")
     \/ SetResult(r, [status |-> "failed", msgKey |-> None])
  /\ UNCHANGED <<rowVars, fileVars, channel, carrierVars, hook, cron, aged>>

(* sendTextMessage: LGU+ accepts and names the message with a msgKey, or   *)
(* rejects it, or the answer does not arrive although the submission did   *)
(* ("uncertain": the handler leaves the row pending; an uncertain answer   *)
(* without a submission ends the request as RequestDies does).             *)
SendTextMessage(r) ==
  /\ request[r].pc = "call"
  /\ request[r].route = "lgu"
  /\ \/ /\ provider' = [provider EXCEPT ![r] = "accepted"]
        /\ \/ SetResult(r, [status |-> "accepted", msgKey |-> r])
           \/ GoTo(r, "over")
     \/ /\ SetResult(r, [status |-> "failed", msgKey |-> None])
        /\ UNCHANGED provider
  /\ UNCHANGED <<rowVars, fileVars, channel, hook, cron, aged, acked>>

(* Mutant: the gateway's Sent counts as delivered. *)
SendGatewayTextMessageSentIsDone(r) ==
  /\ request[r].pc = "call"
  /\ request[r].route = "device"
  /\ provider' = [provider EXCEPT ![r] = "sending"]
  /\ SetResult(r, [status |-> "completed", msgKey |-> None])
  /\ UNCHANGED <<rowVars, fileVars, channel, hook, cron, aged, acked>>

(* sendGatewayTextMessage: the gateway answers with the state the phone    *)
(* has reached; Pending is 대기 and is not recorded, any non-2xx answer is *)
(* a confirmed failure, also one given by the proxy in front of a gateway  *)
(* that has queued the message.                                            *)
SendGatewayTextMessage(r) ==
  /\ request[r].pc = "call"
  /\ request[r].route = "device"
  /\ \/ \E state \in {"accepted", "sending"} \union Terminal :
          /\ provider' = [provider EXCEPT ![r] = state]
          /\ \/ SetResult(r, [status |-> state, msgKey |-> None])
             \/ SetResult(r, [status |-> "failed", msgKey |-> None])
             \/ GoTo(r, "over")
     \/ /\ SetResult(r, [status |-> "failed", msgKey |-> None])
        /\ UNCHANGED provider
  /\ UNCHANGED <<rowVars, fileVars, channel, hook, cron, aged, acked>>

(* Mutant: the result of the send overwrites what a report wrote meanwhile. *)
RecordDeliveryResultUnguarded(r) ==
  LET k == request[r].key
  IN /\ request[r].pc = "record"
     /\ GoTo(r, "over")
     /\ WriteRow(k, [id |-> messages[k].id,
                     status |-> request[r].result.status,
                     msgKey |-> request[r].result.msgKey])
     /\ UNCHANGED <<fileVars, channel, carrierVars, hook, cron, aged>>

(* recordDeliveryResult writes only a row that is still pending. *)
RecordDeliveryResult(r) ==
  LET k == request[r].key
  IN /\ request[r].pc = "record"
     /\ GoTo(r, "over")
     /\ IF messages[k].status = "pending"
        THEN WriteRow(k, [id |-> messages[k].id,
                          status |-> request[r].result.status,
                          msgKey |-> request[r].result.msgKey])
        ELSE UNCHANGED rowVars
     /\ UNCHANGED <<fileVars, channel, carrierVars, hook, cron, aged>>

(* The isolate is evicted or a D1 call throws: nothing further is done. *)
RequestDies(r) ==
  /\ request[r].pc \in {"prepare", "create", "upload", "call", "record"}
  /\ GoTo(r, "over")
  /\ UNCHANGED <<rowVars, fileVars, channel, carrierVars, hook, cron, aged>>

-----------------------------------------------------------------------------
(***************************************************************************)
(* The carriers (external).  They move a message they hold towards a       *)
(* result, and report each state they reach: late, repeatedly, in any      *)
(* order, until a 2xx answer.                                              *)
(***************************************************************************)
ProviderAdvances(r) ==
  /\ \/ /\ provider[r] = "accepted"
        /\ \E s \in {"sending"} \union Terminal : provider' = [provider EXCEPT ![r] = s]
     \/ /\ provider[r] = "sending"
        /\ \E s \in Terminal : provider' = [provider EXCEPT ![r] = s]
  /\ UNCHANGED <<rowVars, fileVars, channel, request, hook, cron, aged, acked>>

(* The states a carrier has been through with the message of r: the gateway *)
(* app has no event for a message it merely accepted.                       *)
ReportableStatuses(r) ==
  CASE provider[r] = "none"      -> {}
    [] provider[r] = "accepted"  -> {"accepted"}
    [] provider[r] = "sending"   -> {"accepted", "sending"}
    [] provider[r] = "completed" -> {"accepted", "sending", "completed"}
    [] OTHER                     -> {"accepted", "sending", "failed"}

(* The cliKey given to LGU+ is the id of the message row, the id given to  *)
(* the gateway is the client key of the browser.                           *)
ProviderKey(r) ==
  IF request[r].route = "lgu" THEN r ELSE request[r].key

PushedReport(r, s) ==
  [clientKey |-> ProviderKey(r),
   msgKey |-> IF request[r].route = "lgu" THEN r ELSE None,
   status |-> s]

(* LGU+ answers a query on a cliKey with the state of the submission that  *)
(* bears it, else with INVALID_KEY, which the parser makes a failure.      *)
PolledReports(cliKey) ==
  LET known == {r \in Requests : /\ provider[r] # "none"
                                 /\ request[r].route = "lgu"
                                 /\ ProviderKey(r) = cliKey}
  IN IF known = {}
     THEN {[clientKey |-> cliKey, msgKey |-> None, status |-> "failed"]}
     ELSE {[clientKey |-> cliKey, msgKey |-> r, status |-> provider[r]] : r \in known}

-----------------------------------------------------------------------------
(***************************************************************************)
(* applyDeliveryReport.                                                    *)
(***************************************************************************)
(* findMessage: by msg_key first, else by client_key on a row that has no  *)
(* msg_key yet.  At most one key, the set is empty for an unknown report.  *)
FindMessage(report) ==
  LET byMsgKey == {k \in Keys : /\ Exists(k)
                                /\ report.msgKey # None
                                /\ messages[k].msgKey = report.msgKey}
      byClientKey == {k \in Keys : /\ Exists(k)
                                   /\ k = report.clientKey
                                   /\ messages[k].msgKey = None}
  IN IF byMsgKey # {} THEN byMsgKey ELSE byClientKey

(* The guard is evaluated again by the UPDATE, a step after findMessage. *)
TransitionGuard(k, report) ==
  /\ \/ report.msgKey # None /\ messages[k].msgKey = report.msgKey
     \/ messages[k].msgKey = None /\ k = report.clientKey
  /\ messages[k].status \in PreviousStatuses(report.status)

(* Mutant: the report's two keys are swapped in the UPDATE's bindings. *)
ApplyDeliveryReportSwappedKeys(k, report) ==
  IF TransitionGuard(k, report)
  THEN WriteRow(k, [id |-> messages[k].id, status |-> report.status,
                    msgKey |-> report.clientKey])
  ELSE UNCHANGED rowVars

ApplyDeliveryReport(k, report) ==
  IF TransitionGuard(k, report)
  THEN WriteRow(k, [id |-> messages[k].id,
                    status |-> report.status,
                    msgKey |-> IF messages[k].msgKey = None
                               THEN report.msgKey ELSE messages[k].msgKey])
  ELSE UNCHANGED rowVars

(* Mutant: the webhook is answered before the batch has committed. *)
ReceiveReportAckingEarly(w, r, s) ==
  LET report == PushedReport(r, s)
  IN /\ hook[w] = IdleHook
     /\ s \in ReportableStatuses(r)
     /\ \E k \in FindMessage(report) :
          hook' = [hook EXCEPT ![w] = [of |-> r, report |-> report, target |-> k]]
     /\ acked' = acked \union {<<r, s>>}
     /\ UNCHANGED <<rowVars, fileVars, channel, request, provider, cron, aged>>

(* A report webhook arrives and looks its message up.  A report of an      *)
(* unknown message is refused with a 400 to LGU+, which sends it again,    *)
(* and acknowledged with a 204 to the gateway.                             *)
ReceiveReport(w, r, s) ==
  LET report == PushedReport(r, s)
  IN /\ hook[w] = IdleHook
     /\ s \in ReportableStatuses(r)
     /\ request[r].route = "device" => s # "accepted"
     /\ <<r, s>> \notin acked
     /\ IF FindMessage(report) = {}
        THEN /\ acked' = IF request[r].route = "device"
                         THEN acked \union {<<r, s>>} ELSE acked
             /\ UNCHANGED hook
        ELSE /\ \E k \in FindMessage(report) :
                  hook' = [hook EXCEPT ![w] = [of |-> r, report |-> report, target |-> k]]
             /\ UNCHANGED acked
     /\ UNCHANGED <<rowVars, fileVars, channel, request, provider, cron, aged>>

ApplyHook(w) ==
  LET report == hook[w].report
  IN /\ hook[w] # IdleHook
     /\ ApplyDeliveryReport(hook[w].target, report)
     /\ hook' = [hook EXCEPT ![w] = IdleHook]
     /\ acked' = acked \union {<<hook[w].of, report.status>>}
     /\ UNCHANGED <<fileVars, channel, request, provider, cron, aged>>

(* A D1 error answers 500: the row keeps its status and nothing is acked. *)
HookDies(w) ==
  /\ hook[w] # IdleHook
  /\ hook' = [hook EXCEPT ![w] = IdleHook]
  /\ UNCHANGED <<rowVars, fileVars, channel, request, carrierVars, cron, aged>>

-----------------------------------------------------------------------------
(***************************************************************************)
(* runDeliveryReportReconciliation.                                        *)
(***************************************************************************)
(* Mutant: only messages LGU+ is known to have accepted are asked about. *)
AwaitsReconciliationAcceptedOnly(k) ==
  /\ Exists(k)
  /\ messages[k].status \in {"accepted", "sending"}
  /\ k \in aged
  /\ channel # "device"

(* PENDING_DELIVERY_REPORT_QUERY looks at the conversation's own channel,  *)
(* through a LEFT JOIN: no channel counts as one without a device.         *)
AwaitsReconciliation(k) ==
  /\ Exists(k)
  /\ messages[k].status \notin Terminal
  /\ k \in aged
  /\ channel # "device"

ReadPending ==
  /\ cron.pc = "idle"
  /\ \E k \in Keys : AwaitsReconciliation(k)
  /\ cron' = [cron EXCEPT !.pc = "query",
                          !.todo = {k \in Keys : AwaitsReconciliation(k)}]
  /\ UNCHANGED <<rowVars, fileVars, channel, request, carrierVars, hook, aged>>

QueryLguDeliveryReports ==
  /\ cron.pc = "query"
  /\ cron' = [cron EXCEPT !.pc = "reply", !.todo = {},
                          !.replies = UNION {PolledReports(k) : k \in cron.todo}]
  /\ UNCHANGED <<rowVars, fileVars, channel, request, carrierVars, hook, aged>>

(* The reports of the answer are looked up and applied one after another;  *)
(* an unknown one is only counted.                                         *)
TakeReply ==
  /\ cron.pc = "reply"
  /\ IF cron.replies = {}
     THEN cron' = IdleCron
     ELSE \E report \in cron.replies :
            \/ /\ FindMessage(report) = {}
               /\ cron' = [cron EXCEPT !.replies = @ \ {report}]
            \/ \E k \in FindMessage(report) :
                 cron' = [cron EXCEPT !.pc = "apply", !.replies = @ \ {report},
                                      !.report = report, !.target = k]
  /\ UNCHANGED <<rowVars, fileVars, channel, request, carrierVars, hook, aged>>

ApplyReply ==
  /\ cron.pc = "apply"
  /\ ApplyDeliveryReport(cron.target, cron.report)
  /\ cron' = [cron EXCEPT !.pc = "reply", !.report = None, !.target = None]
  /\ UNCHANGED <<fileVars, channel, request, carrierVars, hook, aged>>

(* The LGU+ query or a D1 call throws; runScheduledTasks swallows it. *)
CronDies ==
  /\ cron.pc # "idle"
  /\ cron' = IdleCron
  /\ UNCHANGED <<rowVars, fileVars, channel, request, carrierVars, hook, aged>>

-----------------------------------------------------------------------------
(***************************************************************************)
(* The rest of the system.                                                 *)
(***************************************************************************)
(* The message of k passes REPORT_RECONCILIATION_AGE_MS. *)
MessageAges(k) ==
  /\ Exists(k)
  /\ k \notin aged
  /\ SlowRequests \/ request[messages[k].id].pc = "over"
  /\ aged' = aged \union {k}
  /\ UNCHANGED <<rowVars, fileVars, channel, request, carrierVars, hook, cron>>

(* An inbound message gives a conversation without a channel its own. *)
AdoptChannel(c) ==
  /\ channel = "unset"
  /\ channel' = c
  /\ UNCHANGED <<rowVars, fileVars, request, carrierVars, hook, cron, aged>>

RequestStep(r) ==
  \/ LoadSendContext(r) \/ CreateMessage(r) \/ UploadAttachments(r)
  \/ SendTextMessage(r) \/ SendGatewayTextMessage(r) \/ RecordDeliveryResult(r)

CronStep == ReadPending \/ QueryLguDeliveryReports \/ TakeReply \/ ApplyReply

Next ==
  \/ \E r \in Requests : \E k \in Keys : LoadExistingMessage(r, k)
  \/ \E r \in Requests : RequestStep(r)
  \/ \E r \in Requests : RequestDies(r)
  \/ \E r \in Requests : ProviderAdvances(r)
  \/ \E w \in Webhooks : \E r \in Requests : \E s \in Statuses : ReceiveReport(w, r, s)
  \/ \E w \in Webhooks : ApplyHook(w)
  \/ \E w \in Webhooks : HookDies(w)
  \/ CronStep
  \/ CronDies
  \/ \E k \in Keys : MessageAges(k)
  \/ \E c \in Routes : AdoptChannel(c)

Spec == Init /\ [][Next]_vars

(* The Worker runs a request it has accepted, the cron fires every minute, *)
(* LGU+ finishes what it has accepted and pushes a result again until it   *)
(* is acknowledged (the code relies on this by answering 400).  A webhook  *)
(* or a cron run may die, but not every time: strong fairness.  Nothing is *)
(* assumed of the browser, of RequestDies or of the gateway.               *)
Fairness ==
  /\ \A r \in Requests : WF_vars(RequestStep(r))
  /\ \A r \in Requests : WF_vars(request[r].route = "lgu" /\ ProviderAdvances(r))
  /\ \A k \in Keys : WF_vars(MessageAges(k))
  /\ WF_vars(ReadPending)
  /\ SF_vars(QueryLguDeliveryReports) /\ SF_vars(TakeReply) /\ SF_vars(ApplyReply)
  /\ \A r \in Requests : \E w \in Webhooks :
       /\ SF_vars(\E s \in Terminal : ReceiveReport(w, r, s))
       /\ SF_vars(ApplyHook(w))

FairSpec == Spec /\ Fairness

-----------------------------------------------------------------------------
(***************************************************************************)
(* Properties.                                                             *)
(***************************************************************************)
(* A row only moves up: a completed or failed message keeps its status, a  *)
(* late or repeated report never takes a message back, and a msgKey once   *)
(* bound is neither lost nor replaced (PREVIOUS_DELIVERY_STATUSES, the     *)
(* re-checked guard and COALESCE(msg_key, ?) of applyDeliveryReport, the   *)
(* "still 대기" guard of recordDeliveryResult).                            *)
RowOnlyRises ==
  [][\A k \in Keys :
       (Exists(k) /\ messages'[k] # messages[k]) =>
         /\ messages[k].status \in PreviousStatuses(messages'[k].status)
         /\ messages'[k].id = messages[k].id
         /\ messages[k].msgKey \in {None, messages'[k].msgKey}]_messages

(* A carrier that has been told 2xx for a report stops repeating it, so an *)
(* acknowledged report must be in the row: the message stands at least as  *)
(* high as the report says, or is settled.                                 *)
AckedReportsAreInTheRow ==
  \A r \in Requests : \A s \in Statuses :
    <<r, s>> \in acked =>
      /\ Exists(request[r].key)
      /\ messages[request[r].key].status \notin PreviousStatuses(s)

(* 완료 is shown to a member only for a message its carrier delivered.     *)
CompletedIsGenuine ==
  \A k \in Keys :
    (Exists(k) /\ messages[k].status = "completed") =>
      provider[messages[k].id] = "completed"

(* An upload is either still staged or bound to one message; a message has *)
(* all the uploads its request named, also when two requests race for the  *)
(* same ones (creation batch of createStatements).                         *)
UploadsBelongToOneMessage ==
  /\ \A f \in Files : f \in staged <=> attachedTo[f] = None
  /\ \A k \in Keys : {f \in Files : attachedTo[f] = k} =
                        IF Exists(k) THEN FilesOf[k] ELSE {}

(* What the whole path promises: Delivery implements DeliveryLifecycle.    *)
Lifecycle == INSTANCE DeliveryLifecycle WITH
  status <- [k \in Keys |-> IF Exists(k) THEN messages[k].status ELSE "none"],
  handedOver <- [k \in Keys |-> {r \in Requests : /\ provider[r] # "none"
                                                  /\ request[r].key = k}]

ImplementsLifecycle == Lifecycle!Spec

(* Every message sent through LGU+ is settled in the end, whatever died on *)
(* the way: by a pushed result, or by the reconciliation when the send was *)
(* uncertain.                                                              *)
LguMessagesSettle ==
  \A k \in Keys :
    (Exists(k) /\ channel = "lgu") ~>
      (Exists(k) /\ messages[k].status \in Terminal)

(* scheduled-report.test.ts:245 "queries an old pending message and stores *)
(* the completed result": no step records a failure for a message that its *)
(* carrier has delivered already.                                          *)
DeliveredIsNeverFailed ==
  [][\A k \in Keys :
       (/\ Exists(k)
        /\ messages[k].status # "failed"
        /\ messages'[k].status = "failed") => provider[messages[k].id] # "completed"
    ]_messages
=============================================================================
