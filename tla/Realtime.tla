------------------------------ MODULE Realtime ------------------------------
(***************************************************************************)
(* How one open inbox follows the office's event log: the log and its      *)
(* page endpoint (worker/db/events.ts, worker/routes/events.ts), the lossy *)
(* fan-out through the office hub (worker/realtime), and the client's      *)
(* subscription loop (src/hooks/useRealtime.ts, src/state/realtime.ts) with *)
(* the conversation list it reloads (src/state/list.ts).                   *)
(*                                                                         *)
(* The loop runs one operation at a time from a serial queue; every await  *)
(* inside an operation is a step, between which events are committed,      *)
(* frames arrive or get lost, the socket and its timers fire, and the      *)
(* member changes the filter of the list.                                  *)
(***************************************************************************)
EXTENDS Naturals, Sequences

CONSTANTS
  MaxSeq,       \* bound: events committed in the office
  PageLimit,    \* EVENT_PAGE_LIMIT
  MaxRequests,  \* bound: list requests of the member, the first is the mount's
  MaxQueue      \* bound: operations waiting in the serial queue

ASSUME BoundsAssumption ==
  /\ MaxSeq \in Nat
  /\ PageLimit \in Nat \ {0}
  /\ MaxRequests \in Nat \ {0}
  /\ MaxQueue \in Nat \ {0}

VARIABLES
  seq,        \* offices.event_seq
  first,      \* least office_seq still in events, seq + 1 when there is none
  frames,     \* events broadcast to the client's socket and not yet received
  socket,     \* the client's WebSocket
  canNotify,  \* pollingCanNotify
  queue,      \* operations waiting in the serial queue
  task,       \* the operation that is running
  cursor,     \* RealtimeCursor.lastSeq
  notified,   \* how often notifyLiveEvents was given an event
  listId,     \* state.listRequestId
  list,       \* the list shown: who loaded its first page, under which request
              \* id, and seq at that time
  load,       \* the member's request for the first page, on its way
  paging      \* is a request for a further page on its way?

vars == <<seq, first, frames, socket, canNotify, queue, task, cursor, notified,
          listId, list, load, paging>>

serverVars == <<seq, first, frames>>
listVars == <<listId, list, load, paging>>

Events == 1 .. MaxSeq
Seqs == 0 .. MaxSeq
ListIds == 0 .. MaxRequests

(* A frame is queued with its event, the other operations with event 0.    *)
Operations == [kind : {"connect", "open", "poll", "frame"}, event : Seqs]
Op(kind) == [kind |-> kind, event |-> 0]

Phases == {"idle", "events", "read", "dispatch", "resyncRead", "resyncDispatch"}

Tasks == [op : Operations, pc : Phases,
          live : BOOLEAN,       \* does the batch go to applyLiveEvents?
          catchUp : BOOLEAN,    \* is it part of a catch-up, or a lone frame?
          upTo : Seqs,          \* last event of the batch, or the 410's cursor
          more : BOOLEAN,       \* hasMore
          requestId : ListIds,  \* listRequestId when the reload began
          snap : Seqs]          \* seq when the server read the list

IdleTask == [op |-> Op("poll"), pc |-> "idle", live |-> FALSE, catchUp |-> FALSE,
             upTo |-> 0, more |-> FALSE, requestId |-> 0, snap |-> 0]

NoList == [by |-> "nobody", id |-> 0, snap |-> 0, ready |-> FALSE]
NoLoad == [pc |-> "none", id |-> 0, snap |-> 0]

TypeOK ==
  /\ seq \in Seqs
  /\ first \in 1 .. seq + 1
  /\ frames \subseteq Events
  /\ socket \in {"none", "connecting", "open", "closing"}
  /\ canNotify \in BOOLEAN
  /\ queue \in Seq(Operations)
  /\ task \in Tasks
  /\ cursor \in Seqs
  /\ notified \in [Events -> Nat]
  /\ listId \in ListIds
  /\ list \in [by : {"nobody", "member", "realtime"}, id : ListIds, snap : Seqs,
              ready : BOOLEAN]
  /\ load \in [pc : {"none", "sent", "read"}, id : ListIds, snap : Seqs]
  /\ paging \in BOOLEAN

(* The hook mounts with recoverAndConnect in its queue; the list hook has  *)
(* just sent its first request.                                            *)
Init ==
  /\ seq = 0
  /\ first = 1
  /\ frames = {}
  /\ socket = "none"
  /\ canNotify = FALSE
  /\ queue = <<Op("connect")>>
  /\ task = IdleTask
  /\ cursor = 0
  /\ notified = [n \in Events |-> 0]
  /\ listId = 1
  /\ list = NoList
  /\ load = [pc |-> "sent", id |-> 1, snap |-> 0]
  /\ paging = FALSE

-----------------------------------------------------------------------------
(***************************************************************************)
(* The server.                                                             *)
(***************************************************************************)
(* A batch publishes an event and, once committed, broadcasts it: the hub  *)
(* call or the send may fail, so the frame may never leave.                *)
Publish ==
  /\ seq < MaxSeq
  /\ seq' = seq + 1
  /\ \/ frames' = frames \union {seq + 1} /\ socket \in {"connecting", "open"}
     \/ UNCHANGED frames
  /\ UNCHANGED <<first, socket, canNotify, queue, task, cursor, notified, listVars>>

(* Retention deletes the oldest events (outside the code, events.ts relies *)
(* on its order).                                                          *)
Trim ==
  /\ first <= seq
  /\ first' = first + 1
  /\ UNCHANGED <<seq, frames, socket, canNotify, queue, task, cursor, notified, listVars>>

(* The answers of GET /api/events, from one read of the range and a page.  *)
CursorGone(since) == since > seq \/ since < first - 1
PageEnd(since) == IF seq > since + PageLimit THEN since + PageLimit ELSE seq
HasMore(since) == seq > since + PageLimit

-----------------------------------------------------------------------------
(***************************************************************************)
(* Operations of the serial queue.                                         *)
(***************************************************************************)
Enqueue(op) == queue' = Append(queue, op)

Finish == task' = IdleTask

(* A catch-up asks for the events after the cursor. *)
AskForEvents(op, live) ==
  task' = [IdleTask EXCEPT !.op = op, !.pc = "events", !.live = live, !.catchUp = TRUE]

(* reloadInboxState begins with a copy of the state, so with the id of the *)
(* list request that is current now.                                       *)
Reload(op, live, catchUp, upTo, more) ==
  task' = [op |-> op, pc |-> "read", live |-> live, catchUp |-> catchUp,
           upTo |-> upTo, more |-> more, requestId |-> listId, snap |-> 0]

(* Mutant: any frame beyond the cursor is applied at once. *)
StartTaskOverGaps ==
  /\ task.pc = "idle"
  /\ queue # << >>
  /\ queue' = Tail(queue)
  /\ LET op == Head(queue)
     IN IF op.kind = "frame" /\ op.event > cursor
        THEN Reload(op, TRUE, FALSE, op.event, FALSE)
        ELSE AskForEvents(op, op.kind = "poll" /\ canNotify)
  /\ UNCHANGED <<serverVars, socket, canNotify, cursor, notified, listVars>>

(* applyRealtimeFrame applies the next event at once; any other frame makes *)
(* it catch up first.  A poll may notify only when polling has been in     *)
(* step before.                                                            *)
StartTask ==
  /\ task.pc = "idle"
  /\ queue # << >>
  /\ queue' = Tail(queue)
  /\ LET op == Head(queue)
     IN IF op.kind = "frame" /\ op.event = cursor + 1
        THEN Reload(op, TRUE, FALSE, op.event, FALSE)
        ELSE AskForEvents(op, op.kind = "poll" /\ canNotify)
  /\ UNCHANGED <<serverVars, socket, canNotify, cursor, notified, listVars>>

(* The catch-up has no more to read: a poll and a socket may notify from   *)
(* now on, recoverAndConnect opens the socket, a frame that the catch-up   *)
(* has covered is dropped.                                                 *)
CaughtUp(at) ==
  /\ canNotify' = (canNotify \/ task.op.kind # "frame")
  /\ socket' = IF task.op.kind = "connect" /\ socket = "none" THEN "connecting" ELSE socket
  /\ IF task.op.kind = "frame" /\ task.op.event = at + 1
     THEN Reload(task.op, TRUE, FALSE, task.op.event, FALSE)
     ELSE Finish

FetchEvents ==
  /\ task.pc = "events"
  /\ IF CursorGone(cursor)
     THEN /\ task' = [task EXCEPT !.pc = "resyncRead", !.upTo = seq, !.requestId = listId]
          /\ UNCHANGED <<cursor, socket, canNotify>>
     ELSE IF cursor = seq
     THEN CaughtUp(cursor) /\ UNCHANGED cursor
     ELSE /\ Reload(task.op, task.live, TRUE, PageEnd(cursor), HasMore(cursor))
          /\ UNCHANGED <<cursor, socket, canNotify>>
  /\ UNCHANGED <<serverVars, queue, notified, listVars>>

(* The server reads the list for reloadInboxState. *)
ReadList ==
  /\ task.pc \in {"read", "resyncRead"}
  /\ task' = [task EXCEPT !.pc = IF @ = "read" THEN "dispatch" ELSE "resyncDispatch",
                          !.snap = seq]
  /\ UNCHANGED <<serverVars, socket, canNotify, queue, cursor, notified, listVars>>

(* conversationListLoadSucceeded drops a list of another request id. *)
ShowList(by, requestId, snap) ==
  list' = IF requestId = listId
          THEN [by |-> by, id |-> requestId, snap |-> snap, ready |-> TRUE]
          ELSE list

(* notifyLiveEvents is given the batch: a page, or the one event of a frame. *)
Batch == IF task.catchUp THEN cursor + 1 .. task.upTo ELSE {task.upTo}

Notify ==
  notified' = [n \in Events |-> notified[n] + IF task.live /\ n \in Batch THEN 1 ELSE 0]

(* The inbox shows the reloaded state, a live batch notifies, the cursor   *)
(* moves behind the batch.                                                 *)
ApplyEvents ==
  /\ task.pc = "dispatch"
  /\ ShowList("realtime", task.requestId, task.snap)
  /\ Notify
  /\ cursor' = task.upTo
  /\ IF task.catchUp /\ task.more
     THEN AskForEvents(task.op, task.live) /\ UNCHANGED <<socket, canNotify>>
     ELSE IF task.catchUp
     THEN CaughtUp(task.upTo)
     ELSE Finish /\ UNCHANGED <<socket, canNotify>>
  /\ UNCHANGED <<serverVars, queue, listId, load, paging>>

(* Mutants: the cursor is set to the next number, or to the newest event. *)
FullResyncOffByOne ==
  /\ task.pc = "resyncDispatch"
  /\ ShowList("realtime", task.requestId, task.snap)
  /\ cursor' = task.upTo + 1
  /\ AskForEvents(task.op, FALSE)
  /\ UNCHANGED <<serverVars, socket, canNotify, queue, notified, listId, load, paging>>

FullResyncToNewest ==
  /\ task.pc = "resyncDispatch"
  /\ ShowList("realtime", task.requestId, task.snap)
  /\ cursor' = seq
  /\ AskForEvents(task.op, FALSE)
  /\ UNCHANGED <<serverVars, socket, canNotify, queue, notified, listId, load, paging>>

(* recoverGoneCursor: after the full reload the cursor takes the value the *)
(* 410 named, and the catch-up starts again from there, silently.          *)
FullResync ==
  /\ task.pc = "resyncDispatch"
  /\ ShowList("realtime", task.requestId, task.snap)
  /\ cursor' = task.upTo
  /\ AskForEvents(task.op, FALSE)
  /\ UNCHANGED <<serverVars, socket, canNotify, queue, notified, listId, load, paging>>

(* A request of the operation fails.  The reload has perhaps been shown    *)
(* already when the list for the notification fails.  A poll loses its     *)
(* right to notify; the socket whose catch-up failed is closed, if it is   *)
(* still the current one.                                                  *)
TaskFails ==
  /\ task.pc # "idle"
  /\ Finish
  /\ \/ UNCHANGED list
     \/ task.pc = "dispatch" /\ task.live /\ ShowList("realtime", task.requestId, task.snap)
  /\ canNotify' = (canNotify /\ task.op.kind # "poll")
  /\ \/ UNCHANGED <<socket, frames>>
     \/ /\ task.op.kind = "open"
        /\ socket # "none"
        /\ socket' = "closing"
        /\ frames' = {}
  /\ UNCHANGED <<seq, first, queue, cursor, notified, listId, load, paging>>

-----------------------------------------------------------------------------
(***************************************************************************)
(* The socket, the timers and the browser's events.                        *)
(***************************************************************************)
CanEnqueue == Len(queue) < MaxQueue

SocketOpens ==
  /\ socket = "connecting"
  /\ CanEnqueue
  /\ socket' = "open"
  /\ Enqueue(Op("open"))
  /\ UNCHANGED <<serverVars, canNotify, task, cursor, notified, listVars>>

SocketCloses ==
  /\ socket # "none"
  /\ socket' = "none"
  /\ canNotify' = FALSE
  /\ frames' = {}
  /\ UNCHANGED <<seq, first, queue, task, cursor, notified, listVars>>

(* Broadcasts of different requests reach the hub in any order. *)
FrameArrives(n) ==
  /\ socket = "open"
  /\ n \in frames
  /\ CanEnqueue
  /\ frames' = frames \ {n}
  /\ Enqueue([kind |-> "frame", event |-> n])
  /\ UNCHANGED <<seq, first, socket, canNotify, task, cursor, notified, listVars>>

(* Mutant: no polling while the socket is open. *)
PollTimerWithoutSocket ==
  /\ socket # "open"
  /\ CanEnqueue
  /\ Enqueue(Op("poll"))
  /\ UNCHANGED <<serverVars, socket, canNotify, task, cursor, notified, listVars>>

(* The next poll is scheduled when the last one has settled, and also when *)
(* the socket opens or closes: two polls may wait at once.                 *)
PollTimer ==
  /\ CanEnqueue
  /\ Enqueue(Op("poll"))
  /\ UNCHANGED <<serverVars, socket, canNotify, task, cursor, notified, listVars>>

(* recoverAndConnect is queued when the reconnect timer fires, when the    *)
(* browser is online again and when the tab becomes visible: at any time,  *)
(* so the timer has no state of its own here.                              *)
Reconnect ==
  /\ CanEnqueue
  /\ Enqueue(Op("connect"))
  /\ UNCHANGED <<serverVars, socket, canNotify, task, cursor, notified, listVars>>

-----------------------------------------------------------------------------
(***************************************************************************)
(* The member's own list requests (useConversationList).                   *)
(***************************************************************************)
(* A change of the filter empties the list, takes a new request id and     *)
(* aborts the requests before.                                             *)
ChangeFilter ==
  /\ listId < MaxRequests
  /\ listId' = listId + 1
  /\ list' = NoList
  /\ load' = [pc |-> "sent", id |-> listId + 1, snap |-> 0]
  /\ paging' = FALSE
  /\ UNCHANGED <<serverVars, socket, canNotify, queue, task, cursor, notified>>

ReadMembersList ==
  /\ load.pc = "sent"
  /\ load' = [load EXCEPT !.pc = "read", !.snap = seq]
  /\ UNCHANGED <<serverVars, socket, canNotify, queue, task, cursor, notified,
                 listId, list, paging>>

ShowMembersList ==
  /\ load.pc = "read"
  /\ load' = NoLoad
  /\ ShowList("member", load.id, load.snap)
  /\ UNCHANGED <<serverVars, socket, canNotify, queue, task, cursor, notified,
                 listId, paging>>

MembersListFails ==
  /\ load.pc # "none"
  /\ load' = NoLoad
  /\ list' = [list EXCEPT !.ready = @ /\ load.id # listId]
  /\ UNCHANGED <<serverVars, socket, canNotify, queue, task, cursor, notified,
                 listId, paging>>

(* A further page takes a request id of its own and leaves the shown rows. *)
LoadMore ==
  /\ list.ready
  /\ ~paging
  /\ listId < MaxRequests
  /\ paging' = TRUE
  /\ listId' = listId + 1
  /\ UNCHANGED <<serverVars, socket, canNotify, queue, task, cursor, notified, list, load>>

(* It is appended, dropped or has failed: the first page stays as it is. *)
LoadMoreEnds ==
  /\ paging
  /\ paging' = FALSE
  /\ UNCHANGED <<serverVars, socket, canNotify, queue, task, cursor, notified,
                 listId, list, load>>

Next ==
  \/ Publish \/ Trim
  \/ StartTask \/ FetchEvents \/ ReadList \/ ApplyEvents \/ FullResync \/ TaskFails
  \/ SocketOpens \/ SocketCloses \/ PollTimer \/ Reconnect
  \/ \E n \in Events : FrameArrives(n)
  \/ ChangeFilter \/ ReadMembersList \/ ShowMembersList \/ MembersListFails
  \/ LoadMore \/ LoadMoreEnds

Spec == Init /\ [][Next]_vars

(* The browser runs queued operations and the polling timer; requests may  *)
(* fail, but not every time.                                               *)
Fairness ==
  /\ WF_vars(StartTask) /\ WF_vars(PollTimer)
  /\ SF_vars(FetchEvents) /\ SF_vars(ReadList)
  /\ SF_vars(ApplyEvents) /\ SF_vars(FullResync)

-----------------------------------------------------------------------------
(***************************************************************************)
(* Properties.                                                             *)
(***************************************************************************)
(* Whatever frames, requests and trimming do, the client takes the events  *)
(* in without a gap and in order, and notifies of each at most once        *)
(* (RealtimeCursor.apply, applyRealtimeFrame, catchUp, recoverGoneCursor). *)
Feed == INSTANCE EventFeed WITH seen <- cursor
ImplementsFeed == Feed!Spec

(* The list a reload has shown under the current request id holds every    *)
(* event behind the cursor: the cursor moves only after the reload.        *)
ShownReloadsReachTheCursor ==
  list.by = "realtime" /\ list.id = listId => list.snap >= cursor

(* A client that has no list request of its own on the way, and is not     *)
(* asking for a list of its own, sees what the cursor has been moved over. *)
ListReflectsCursor ==
  load.pc = "none" /\ ~paging /\ list.by # "nobody" => list.snap >= cursor

(* Every committed event is taken in at last, whether its frame was sent,  *)
(* lost or reordered, and though requests fail and sockets close.          *)
CatchesUp == \A n \in Events : (seq >= n) ~> (cursor >= n)
=============================================================================
