# RichChat: TLA+ models, model checks and proofs

RichChat is a shared SMS/MMS inbox: a Cloudflare Worker (`worker/`) with a D1
database and R2 objects, a Durable Object that fans events out, two carriers
(the LGU+ message hub and business phones running an SMS gateway app), and a
React client (`src/`). This directory models the parts of it where several
actors meet, checks them with TLC, and proves the safety properties it checks, and
both refinements, with TLAPS.
Paths below are relative to the repository.

## The system: components, state, interaction

| component | code | state | operations |
|---|---|---|---|
| outbound delivery | `worker/routes/messages-send.ts`, `worker/gateway/send.ts`, `worker/lgu/send.ts` | `messages`, `outbound_attachment_uploads`, `message_attachments` | POST of a message: look up the client key, create the row in one batch, hand it to a carrier, record the answer |
| delivery reports | `worker/db/delivery.ts`, `worker/routes/hooks-report.ts`, delivery hooks of `hooks-sms-gateway.ts` | the message row | find the message, apply the status, acknowledge |
| reconciliation | `worker/scheduled.ts`, `worker/lgu/report.ts` | the message row | ask LGU+ for pending messages older than two minutes |
| event log and fan-out | `worker/db/events.ts`, `worker/realtime/*`, `worker/routes/events.ts` | `events` (sequence per office), sockets of the hub | publish in the batch that changes a row, broadcast after it, pages of events |
| realtime client | `src/hooks/useRealtime.ts`, `src/state/realtime.ts` | cursor, task queue, socket, timers | catch up, apply frames, poll, reconnect, full resync |
| conversation list client | `src/hooks/useConversationList.ts`, `src/state/list.ts` | the list, its request id | load, load more, filter, realtime reload |
| inbound message store | `worker/inbound-message.ts` | `messages`, `conversations`, `customers` | store or merge a carrier's message, project it on the conversation |
| conversation writes | `conversation-write.ts`, `reads.ts`, `conversations.ts` in `worker/routes` | `conversations`, `conversation_reads`, `conversation_assignees` | start, PATCH with a version, read cursor, assign, unassign |
| member status | `worker/routes/office.ts` | `users`, `auth_sessions`, assignees | deactivate, reactivate |
| MMS generations and attachments | `mms:downloaded` in `hooks-sms-gateway.ts`, `worker/inbound-message.ts` | `messages`, `message_attachments`, R2 objects | replace the content of an MMS |
| MMS headers | `mms:received` in `hooks-sms-gateway.ts`, `sms-gateway-mms-diagnostics.ts` | `sms_gateway_mms_pending`, `sms_gateway_mms_matches`, `mo_failures` | record a header, pair it with a delivery, report it when stale |
| attachment downloads | `worker/scheduled.ts`, `worker/attachments.ts` | `message_attachments` with a lease, R2 objects | claim, fetch, put, settle, defer, give up after a day |
| LGU+ inbound webhook | `worker/routes/hooks-mo.ts` | `mo_failures` | decode, store, quarantine after three attempts |
| LGU+ token | `worker/lgu/token.ts` | `lgu_tokens` (token and lease), a cache per isolate | authenticate under a lease |
| login, members | `auth.ts`, `http/session.ts`, `office.ts` | `users`, `oauth_states`, `auth_sessions` | login, invite, roles, status |
| phones | `office.ts`, `gateway/admin.ts` | `office_channels`, audit events | register, activate, signing keys, enrollment codes |
| customers, tasks, notes | `customers.ts`, `tasks.ts`, `notes.ts`, `conversation-detail.ts` | `customers`, `customer_fields`, `tasks`, `notes` | read, save, create, change, delete, page |
| thread client | `src/state/thread.ts`, `ChatPane`, `ThreadPanel`, `useConversationWrite` | bubbles, cursor, the shown header | load newest and older, send, retry, write a header |
| customer card client | `useCustomerCard`, `customerCardModel` | card, draft, conflict, items | edit, save, rebase, optimistic tasks and notes |

How they interact. Every handler runs in an isolate of its own; handlers share
only D1, R2 and the hub. A D1 batch is one transaction; everything else a
handler awaits (a read, a carrier, R2) is a point where any other handler may
run, and where the handler may die. A batch that changes a row publishes an event in the same
transaction; the frame is sent afterwards, best effort. Carriers call webhooks,
repeat them until they see a 2xx answer, and do not keep them in order. The
client follows the event log by a cursor and reloads its list over HTTP.

What is hard: races of handlers on one row, stale reads used after an await,
answers of a carrier against its reports, isolates dying between two steps,
lost and reordered frames, requests of one browser answered out of order.
`PROJECT.json` lists these hazards at their lines, with the properties that
watch them or the reason there is none yet.

What makes each correct: outbound delivery hands a message over once and its
status only rises; reports acknowledged are kept; reconciliation settles what is
pending and only that; the client applies every event, in order, and its list is
not older than its cursor; the projection of a conversation agrees with its
messages; a PATCH never overrides what its sender had not seen; the attachments of an MMS
are of one download, and those shown as completed can be opened; an attachment to
download is settled once; what a webhook acknowledged is stored or was given its
attempts; a token handed out is alive and never replaced by an older one; a header
is reported only if nothing near it came; an active administrator remains; codes
stay within their limit; the client shows nothing twice, its pages skip nothing,
and its writes replace only what it was shown.

## Modules

**DeliveryLifecycle** — the promise: per client key at most one message and one
hand-over, a status that only rises, a change announced with every rise.

**Delivery** — the detailed path. `messages`, `announced`, `staged`,
`attachedTo` are tables; `request`, `hook`, `cron` hold the local state of the
handlers in flight, with a pc at each await; `provider` is the carrier, external.
`LoadExistingMessage`, `LoadSendContext`, `CreateMessage`, `UploadAttachments`,
the hand-over (`SendTextMessage`, `SendGatewayTextMessage`) and
`RecordDeliveryResult` are the awaits of `sendMessage`;
`RequestStep` puts them together, `RequestDies` ends a request anywhere.
`ReceiveReport`/`ApplyHook` are the webhooks, `ReadPending` to `ApplyReply` the
cron. `AdoptChannel` is the one thing the inbound path does to a send: it may give
the conversation a channel.

**EventFeed** — the promise of following: events are taken in one after the
other, without gaps, each notified at most once.

**Realtime** — log, fan-out and client. Frames are a set: they are lost,
reordered and never repeated. The client runs one task of its queue at a time,
each await of a task a step; `Reload`, `ReadList`, `ShowList` carry the request
id of `state/list.ts`, shared with the member's own loads.

**Inbox** — a conversation's row with its messages, read cursors and assignees:
`StoreNewMessage` and `CorrectTime` are the two batches of
`storeInboundMessage`; `RequireSession` is the await every handler begins with,
after which its batch runs.

**MmsContent** — the content of one downloaded MMS: fingerprint, attachment rows,
R2 objects, and the deliveries of the webhook that replace them. The steps of a
delivery are the awaits of `handleMmsInbound`: `ReadFingerprint`, `CompareRows`
and `CompareObject` are `inspectMmsGeneration`; `StoreInboundMessage` is the
batch of `storeInboundMessage` with its compare-and-swap of the fingerprint;
then the replaced objects are discarded, a change without attachments announced,
attachments put one by one, rows settled in one batch, and objects put too late
deleted. `DeliveryDies` ends a delivery between any two, with a 500 or without an
answer. What the batch does to the conversation is in Inbox, over the same code.

**MoWebhook** — the webhook of LGU+. A delivery of a batch looks each undecodable
message up in `mo_failures` (`IsQuarantined`), counts it (`RecordFailure`), stores
the others in the order of their times (`StorePreparedItem`), and is acknowledged
(`Continue`) when nothing asks for a retry. Deliveries of one batch overlap and
fail anywhere (`DeliveryFails`); a batch comes again until it is acknowledged.

**Downloads** — the rows of attachments to fetch, their leases and objects, and the
runs of `runAttachmentDownloads`, each await a step: `ClaimNextAttachment`,
`FindObject`, `DeleteObject`, `FetchAttachment`, `PutObject`, then `Settle` in one
batch with its event. A run throws, dies or outlives its lease (`LeaseExpires`)
anywhere; `WindowPasses` is the end of the 24 hours after which a file is given up.
LGU+ may leave the URL of a file out (`hooks-mo.ts:152`). A row without one
(not in `located`) is never claimed, so neither fetched nor given up: it stays pending
until the message is delivered again with a URL, and `RedeliverUrl` is that batch of
`storeInboundMessage`, which may also change or take away the URL of a pending row
while a run holds it. A run works with the URL it was given by its claim; whether that
is one of LGU+'s (`Validated`) is therefore open for each claim.

**TokenLease** — the row of `lgu_tokens`, the cache and the pending load of each
isolate, and a clock. `StartLoad` to `ReleaseLease` are the awaits of a load; a
token is the time LGU+ issued it.

**MmsHeaders** — headers, deliveries, the ledger of pairs and the report of stale
headers, and overlapping runs of the cron: two reads and a batch each.
`GreedyMmsMatches` is the pairing, a recursive function of the steps taken: the
earliest header left, with the earliest delivery not too old for it, if it is near.

**Office** — members with role, status and account; the requests that change them,
a session check and a guarded batch; and logins, from the state they consume over
`ReadCandidates`, `ActivateUser` and `SelectActive` to `CreateSession`.

**OfficePhones** — phones, signing keys and enrollment codes: an attempt is
reserved by the statement that counts those of the window, then the gateway is
asked, then the result recorded.

**CustomerCard** — the card and draft in the client and the PATCH that saves it, two
reads and one batch guarded by the version, with conflict, `UseServerCustomer` and
`RebaseCustomerEdit`. A field has an id, a content (key and value, which are always
compared and sent together) and a sortOrder. The server lists fields by sortOrder and
id (`ListedBefore`); a draft lists what it has from the server, then its new fields
(`ComesBefore`). `RemoveEditField` and `RebasedDraft` number all fields anew
(`Renumbered`), and `IsChanged` counts another sortOrder as a change, as `changedField`
does; so a field that only moved is carried over by a rebase with the content of the
draft, and sent by the next save. Two history variables of a draft tell the reasons
apart: `touched`, what the member typed into, added or removed, and `carried`, what a
rebase kept because it had moved. New fields get ids never used before (`fresh`). Other
members' saves are one step each: only their batch can be seen.

**CardItems** — tasks and notes, on the server and in the lists of clients that show
a change before it is answered.

**Arrays** — `filter` of a JavaScript array as the reducers use it (`Filtered`),
written without recursion, so that proofs can use it; CardItems and Thread
extend it.

**Thread** — the bubbles of a conversation: loads of the newest and older pages that
carry no id, sends shown before they are stored, failures and retries.

**ConversationWrite** — the header of a conversation in a client: an optimistic
change, its PATCH, its answer or failure, and reloads.

**ListPages** — pages of the conversation list by a keyset cursor, rows that move
meanwhile, and the three requests that share the request id of the list.

### Modules that compose

`MCDelivery`, `MCRealtime`, `MCInbox`, `MCMmsContent` and `MCCard` give constants to
one module each. `MCOutbound` chooses between two instances of Delivery by a variable
`part`: one message that everything meets, or two messages that share an upload.
`MCIntake`, `MCSharedRows` and `MCClients` put several modules side by
side: their `part`, chosen at the start, says which of them runs, and the
others stand still in their initial state. These modules share no variable, as the
code they model shares no row, so interleaving them would multiply states
without adding an order of events that matters; side by side, one run asks one
question (what happens between a read and the guarded statement after it, say) of
all of them, and its state space is the sum, not the product. Components that do
interact are in one module: the cron and the webhooks with the send (Delivery), the
log with the client (Realtime), the paths to one row (Inbox).

`DeliveryProofs`, `RealtimeProofs`, `InboxProofs`, `MmsContentProofs`, `OfficeProofs`,
`IntakeProofs`, `SharedRowsProofs` and `ClientProofs` hold the theorems; the last
three follow the composing modules `MCIntake`, `MCSharedRows` and `MCClients`.

## Runs

| run | shows | bounds, and why they are enough |
|---|---|---|
| `outbound` | types, acknowledged reports kept, completed only if delivered, rows only rise, refinement of DeliveryLifecycle; an upload goes to one message; every stored LGU+ message with an upload in play ends completed or failed | *race*: one key, two requests, two webhooks, every channel: two posts race, each can meet a report and its repetition, and the cron; rows of different keys do not touch except by uploads. *uploads*: two keys with the same upload, two requests, one webhook, LGU+, under fairness: a loser and a winner of the upload. Requests and webhooks are alike, so the first to come is always named `r1`, `w1` (`NamedInOrder`) |
| `false_failure` | violation, finding 1 | one request |
| `follows` | types, a shown reload reaches the cursor, refinement of EventFeed, every event is taken in | two events in pages of one, or one and a list request of the member after the mount's (`MaxActivity`: events and list requests together), one task waiting, under fairness: a gap, a page that is not the last and a trimmed cursor all happen |
| `stale_list` | violation, finding 2 | one event |
| `projection` | last message, inbound count, completions, read cursors | two messages, two times, two requests: out-of-order commits and ties, a correction in both directions, a PATCH and a read overtaken by a message |
| `inactive_assignee` | violation, finding 3 | one request, two members |
| `generations` | types, completed attachments have objects, attachments of one body, answered deliveries settled and stored | three deliveries of four bodies with up to two attachments: a winner, a loser and a duplicate; bodies that are unreadable in part, too large, or without attachments |
| `unannounced` | violation, finding 4 | two bodies without attachments |
| `intake` | *MoWebhook*: an acknowledged message is stored or had its three attempts; every batch is acknowledged. *Downloads*: completed attachments have objects, each is settled and announced once, each that keeps a URL is settled in the end | three batches, with a key twice in one and a key good in one and bad in another; two deliveries, two failures; two runs, two attachments, one of known size that may come without a URL, get one, lose it or get another, and one whose URL is never LGU+'s, one attachment per run: takeover, recovery, giving up and waiting for a URL all happen |
| `shared_rows` | *Office*: an active administrator remains. *OfficePhones*: the limit of codes. *TokenLease*: tokens handed out are alive, stored tokens get younger. *MmsHeaders*: every header is accounted for, and reported only without a delivery | three members, accounts and logins, a shared address, two requests; three code requests in a window of one tick and a limit of one; two isolates and a lease shorter than an authentication; two headers, two deliveries, two cron runs |
| `carried_over` | violation, finding 5 | two fields, one member typing or removing once, another changing the second field; two saves |
| `clients` | *CustomerCard*: what a save overwrites was in the card its author started from or carried the draft over to, and was typed into or carried over. *CardItems*, *Thread*: nothing is shown twice; deletions are announced once. *ListPages*: pages skip nothing. *ConversationWrite*: a write replaces what was seen | two saves and three versions; a name and two fields, and an id for a third; a member adds, removes or types once in each draft (`MaxTouched`), others rename, change the second field or remove it (`OtherSaves`): fields move, conflict and are carried over; two items and three requests in two milliseconds; pages of two of four messages, two keys, two loads; three conversations in pages of one, one move; two writes and two states |

`MaxMessages`, `MaxTime`, `MaxVersion`, `MaxSeq`, `MaxRequests`, `MaxActivity`, `MaxQueue`,
`MaxErrors`, `LastTick`, `MaxKey`, `MaxClock`, `MaxNow`, `LastMs`, `MaxThread`,
`MaxReads`, `MaxTouched`, `OtherSaves`, `BadUrls`, `Redelivered`, `LastVersion`, `LastSortAt`, `MaxEdits` and `MaxListIds` are bounds of
the models, not of the code. `PageLimit` (100 events, 30 conversations), `PageSize` (50 messages),
`MaxPerRun`, `Limit` and `Window` (three codes in five minutes), `Lease`, `Usable`,
`Margin` and `Wait` are constants of the code made small; `QuarantineAttempts` is the
code's three. `Latency` bounds the time between two steps of a load: with twice it
over the code's margin a token could be dead when it is handed out, which the code
excludes by a margin of minutes (`TokenAssumption`). Deadlock is not checked where
the system really stops: everything is settled and nobody posts again (Delivery),
deliveries are finitely many (MmsContent), or clocks and counters reach their bound
(the runs side by side). Symmetry is used in runs without liveness only.

Each property has a mutant in `PROJECT.json`: an operator in the module that
changes a mapped definition as a plausible bug would and breaks the property.

## Fairness

`outbound`, in *uploads*: the Worker goes on with a request it has accepted unless it dies (weak
fairness of `RequestStep`), the cron fires every minute, and LGU+ finishes what
it has accepted and pushes a result again until it is acknowledged, which
`hooks-report.ts` relies on when it answers 400. A webhook or a cron run may die,
but not every time (strong fairness of their steps). Nothing is assumed of the
browser, of `RequestDies` or of business phones. `MCOutbound` states the formulas of
Delivery guarded by `part`.

`follows`: timers of the browser fire (weak fairness of the polling timer and
of the tasks it queues), and a request does not fail every time (strong fairness
of its success). Frames and sockets may fail for ever.

`intake`: LGU+ delivers a batch until it is acknowledged and the Worker goes on with
a delivery it has begun (weak fairness of `DeliverBatch` and `DeliveryStep`); D1
fails at most `MaxErrors` times. The cron keeps starting runs and time passes (weak
fairness of `StartRun`, `RunStep`, `LeaseExpires`, `WindowPasses`); neither every
claim nor every settlement of an expired row fails (strong fairness of
`ClaimNextAttachment` and of a `FinalizeFailure` that changes a row). No fetch and no
put is assumed to succeed, and no repetition that brings a URL: `FilesSettle` promises
settlement only to a row that has a URL from some time on. `MCIntake` states the same formulas guarded by `part`.

## Findings

1. `false_failure`: messages are handed to LGU+ under the message id, and asked
   for under the client key; LGU+ answers that it knows no such key, and a
   delivered message is recorded as failed.
2. `stale_list`: a realtime reload borrows the request id of the member's load
   under way, whose older answer is then accepted.
3. `inactive_assignee`: a member deactivated while a send of theirs is under way
   becomes an assignee.
4. `unannounced`: a delivery that dies between replacing the content of an MMS and
   announcing it is repeated; the repetition finds its own content and announces
   nothing.
5. `carried_over`: a member removes a field, and the next one moves up; another member
   changes the content of that one. The save meets a conflict, whose text says that
   neither side is overwritten automatically (`InfoTabView.tsx:305`); the member goes
   on with the own changes, the rebase keeps the field's old content because its
   sortOrder differs, and the next save takes the other member's change back.
   `NothingIsOverwrittenUnseen` says what does hold: the value taken back was in the
   card of the conflict that the member chose to carry the draft over to.

Other things the models allow are hazards, not findings, because no doc or test
promises otherwise: a slow duplicate of an MMS that looked at the rows before another
delivery completed them deletes them and their objects; a download of known size
that outlives its lease deletes the object another run has completed the row with
(the exception in `ServedObjectsExist`); a realtime reload that crosses a request for
a further page leaves a list that page does not continue (the history variable
`joined` in `PagesSkipNothing`); an attachment whose URL LGU+ never sends stays pending
for ever; LGU+ is asked for messages of business phones.

## Proofs

Every invariant and every action property the passing runs check, and both
refinements, are theorems: for all values of the constants, under the assumptions
the modules name (`...Assumption`): that None and its like are no values, that
sets of an enumeration are what they are said to be, that numbers are naturals, that
conversations and attachments are finitely many, that `Margin` covers twice
`Latency`, and in `OfficeAssumption` that there is a founder with an account. TLC
evaluates each of them in a run. Hardly a property is inductive as it stands; below
is what each inductive invariant adds, and why. One lemma per action, or per kind of action, proves
that the invariant is preserved; the theorems at the end of each section draw the
conclusions.

`DeliveryProofs`: `TypeOK`, `AckedReportsAreInTheRow`, `CompletedIsGenuine`,
`UploadsBelongToOneMessage`, `RowOnlyRises` and `ImplementsLifecycle`.
`IInv` adds what a request, a webhook or the
cron remembers over an await and what must still be so when it is used: a request past
its creation batch owns the row of its key, and a carrier holds a message only
for the request that owns the row (`RequestInv`, `RowInv`); a report a webhook
has looked up is one its carrier made, about the row it found (`HookInv`); an
answer of LGU+ to the cron names a submission of its own, or is the failure of
an unknown key (`CronInv`); a report acknowledged is not one the row could still
take (`AckInv`). Lemmas for the
three kinds of step (handler, row, report) carry what an action leaves alone. The
action properties and the refinement follow from `IInv`, action by action: each
step is a step of `DeliveryLifecycle` or a stutter.

`RealtimeProofs`: `TypeOK`, `ShownReloadsReachTheCursor` and `ImplementsFeed`.
`RealtimeInv` says that a frame on its way, queued or begun tells of an event that is
committed (`FramesAreCommitted`); that a reload stands for events not yet taken in,
and one for a frame alone for the very next event (`ReloadsMoveForward`), which is
why the refinement has no gap; that the list it has read holds them
(`ReloadsReadTheirEvents`); and that the request id it borrows is no older than the
one of the reload shown before it (`ReloadsBorrowInOrder`), without which an older
list could replace a newer one under the same id.

`InboxProofs`: `TypeOK`, `LastMessageIsLatest`, `InboundCountIsExact`,
`CompletionsMissNothing`, `ReadsFollowMessages`. The step that is not obvious is that
a PATCH with the row's version knows the row's count: `InboxInv` says so of every
request under way (`RequestOK`), and it survives because every batch that raises the
count raises the version (`RowRises`); the batch of `CorrectTime` changes
neither. `MessageAdded` is the one argument both ways of adding a message share, with
their different rules for ties, and `OneMessagePerKey` turns the count into a
cardinality. Messages are finite as their ids are (`MessagesAreFinite`), and grow
(`MessagesOnlyGrow`), which keeps the read cursors of all members below them.

`MmsContentProofs`: `TypeOK`, `CompletedHaveObjects`,
`ContentIsOneGeneration`, `AcknowledgedAreSettled` and `AcknowledgedContentIsStored`.
Its `IInv` adds two things. `RowOK`: a row belongs to a delivery past its batch
whose body is the stored one, and is pending just as long as that delivery has not
settled it. `DeliveryOK`: the objects a delivery is about to delete have no rows
any more and will have none, as the delivery that made their ids is past its own
batch; and the fingerprint it found is the stored one unless it was overtaken.
The first makes a late `DeleteStaleObjects` harmless, the second the answer to a
delivery that lost the compare-and-swap.

`IntakeProofs`, MoWebhook: `AcknowledgedMessagesAreKept`. The webhook looks a
message up and counts it in two statements, so deliveries that cross count it more
than once between looks. `FailuresAreTries` bounds that: the count, with the
deliveries that hold the message and have not counted it, is no more than its tries,
so three failures are three deliveries. `DeliveriesKnow` says that a delivery
forgets no message: each is done, still to do, or a reason to ask for a retry.

`IntakeProofs`, Downloads: `SettledOnceAndAnnounced` and `ServedObjectsExist`.
`DownloadInv` adds that a run holds the row it is at, unless the lease ran out under
it (`RunsHoldTheirRows`), that only objects of known size are ever removed
(`SizedAreRemoved`), and that a run about to complete a row has seen or put its
object (`SuccessHasAnObject`). `IntakeTypeCorrect` is `IntakeTypeOK` of both.

`OfficeProofs`: `AnActiveAdministratorRemains`; and two properties no run checks,
`SessionsAreTheAccounts` and `AdministratorsAreMadeByAdministrators`, which TLC
confirmed on the bounds of `shared_rows`. `OfficeInv` adds that a member nobody
has invited is no administrator, and that a login which has claimed a member did so
with the account the member is bound to (`ClaimsAreTheAccounts`).

`SharedRowsProofs`, TokenLease: `HandedTokensAreAlive` and `StoredTokensGetYounger`.
A token's use is counted from the answer, not from when LGU+ issued it: what is
stored or cached is at most `Latency` older than its record says
(`RecordsAreOfAnswers`), a load at most `Latency` behind the clock
(`LoadsAreInTime`), and the margin covers both. `LeaseKeepsTheRow` is what makes
the save safe: while the row holds the lease of a load, what it stores had expired
when that load began, for a save by another load takes the lease out.

`SharedRowsProofs`, OfficePhones: `EnrollmentIsLimited`. Requests take the time
before they reserve, so reservations are made in another order than their times. What
is inductive counts reservations, not codes: an attempt is reserved before anything
is issued (`AttemptsAreReserved`), and no window holds more of one actor than the
limit, whenever they were made (`AttemptsAreLimited`).

`SharedRowsProofs`, MmsHeaders: `HeadersAreAccountedFor` and
`ReportedHeadersHaveNoDelivery`. `RowsAreKeyed` says that keys are unique in each
table and in what a run has read of it, and that headers are finitely many. The
pairing a run computes is a function
defined by recursion on how many headers it has been through; that it pairs one to one for any
rows (`GreedyIsOneToOne`) is shown by a least counterexample, which needs no
induction theorem. `PromoteKeeps` then shows that the guarded insert and the deletes
of a run that read before another one wrote keep the ledger one to one.

`ClientProofs`, CustomerCard and ConversationWrite: `NothingIsOverwrittenUnseen` and
`WritesReplaceWhatWasSeen` rest on one idea: whatever copy of a
row a client or a request holds is old or true. If it has the row's version, it has
the row's content (`KnownHeader`, `KnownRow`; `Known`, `GoodDraft`), so a guarded
statement that wins replaces what its author was shown. The work is in the copies
made from other copies: the state a failure restores, a draft rebased on a conflict,
a card read in two queries between which the row changed. Of a draft, `DraftIsOwn` says
that whatever content differs from the base was typed into or carried over because
it had moved: it survives any number of removals and rebases, since a rebase keeps
a content for one of these two reasons and notes the second. `FreshIdsAreUnused` keeps
a new field from overwriting another, and `Full` adds that a column, unlike a field,
is never absent, which the types need. That `touched` alone does not explain what a
save overwrites is finding 5.

`ClientProofs`, ListPages: `PagesSkipNothing`. Nothing lies between what a page was
asked after and its own cursor but its rows, and conversations changed since
(`AnswerMissesNothing`), and a request under the current id is for the list's filter
and place (`RequestsFitTheList`); the rest is that the order of the query is total
on conversations (`OrderIsTotal`), so that a page ends where the next begins.

`ClientProofs`, CardItems: `DeletionsAreAnnouncedOnce` and the half of
`NothingIsShownTwice` about tasks and notes. An id a client made is that of a request
that was sent, wherever it is shown or remembered (`Started`), so a new request's
entry can take no place that is taken; that lists of any length keep each id once
under removal, replacement and restoring is shown by the index of `Arrays`
(`FilteredFacts`).

`ClientProofs`, Thread: the other half. Two bubbles are apart (`Apart`) if they
have different ids and neither is the request of which the other is the message. What
makes that inductive is `SoundBubble`: a bubble that still stands for a request
whose message is stored is newer than anything a load of an older page may still
bring. A load of the newest page shows rows only, and the answer to the request
takes the bubble's place, so nothing puts that row beside it.

`ClientInvariant` and `ClientTypeCorrect` put the five together, for
`NothingIsShownTwice` and `ClientTypeOK` of the whole `ClientSpec`; the others are
stated of the part that has them.

Model-checked only: the liveness properties `UploadsSettle`, `CatchesUp`,
`MoIsAcknowledged` and `FilesSettle`, which rest on fairness and ENABLED, out of the
prover's reach; and the five runs that show a violation. The library's induction
theorems are out of reach as well; where data are recursive the proofs argue by a
least counterexample instead (`LeastNatural`), or the model says what the code
computes without recursion (`Arrays`).

What is left: an abstract specification of what the download jobs and the webhook of
LGU+ promise, which Downloads and MoWebhook would implement as Delivery implements
DeliveryLifecycle; and the reconciliation's limit of ten messages as a constant.

## Not modelled

- Staging of uploads (`message-attachments-upload.ts`) puts objects and inserts rows
  once, and serving an attachment only reads; what a send does to a staged upload
  is in Delivery.
- The rule that no two fields of a customer have the same key, beyond being a reason
  for which the batch of a save fails; limits on lengths and numbers of fields.
- Labels and archiving, which travel with the status in a PATCH; the counts beside the
  list; the customer row made for a new number.
- Office settings, names, titles and phone labels: plain updates guarded like those
  modelled. The own profile likewise.
- Hub admission (tickets, one hub per office) and the trimming of the event table,
  which is external.
- Desktop notifications (that an event notifies at most once is in EventFeed),
  rendering, view state and selection.
- Cryptography, cookies, the identity provider, wire types, parsing of fields that
  decide nothing here, the router, development routes, generated types, migrations of
  data. The constraints of the schema appear where a handler relies on them.
- The limit of ten messages per reconciliation, which needs eleven messages to matter.
