---------------------------- MODULE RealtimeProofs ----------------------------
(***************************************************************************)
(* Proofs about Realtime for any number of events, any size of a page and  *)
(* any number of requests: the client implements EventFeed, and a list     *)
(* that a reload has shown holds what the cursor was moved over.           *)
(***************************************************************************)
EXTENDS Realtime, SequenceTheorems, TLAPS

Committed(n) == n \in 1 .. seq

(* A frame tells of an event that is committed, on its way, in the queue   *)
(* and at the head of the operation it began.                              *)
FramesAreCommitted ==
  /\ \A n \in frames : Committed(n)
  /\ \A i \in DOMAIN queue : queue[i].kind = "frame" => Committed(queue[i].event)
  /\ task.op.kind = "frame" => Committed(task.op.event)

(* A reload stands for events that are committed and not yet taken in; one *)
(* for a frame alone stands for the next event, and is live.               *)
ReloadsMoveForward ==
  task.pc \notin {"idle", "events"} =>
    /\ cursor < task.upTo /\ task.upTo <= seq
    /\ task.pc \in {"read", "dispatch"} /\ ~task.catchUp =>
         task.upTo = cursor + 1 /\ task.live

(* The list a reload has read holds the events it stands for.              *)
ReloadsReadTheirEvents ==
  task.pc \in {"dispatch", "resyncDispatch"} => task.snap >= task.upTo

(* A reload borrows a request id that was given, and none older than the   *)
(* one the list on the screen was shown under by the reload before it.     *)
ReloadsBorrowInOrder ==
  /\ list.by = "realtime" => list.id <= listId
  /\ task.pc \notin {"idle", "events"} =>
       /\ task.requestId <= listId
       /\ list.by = "realtime" => list.id <= task.requestId

RealtimeInv ==
  /\ TypeOK
  /\ cursor <= seq
  /\ FramesAreCommitted
  /\ ReloadsMoveForward
  /\ ReloadsReadTheirEvents
  /\ ReloadsBorrowInOrder
  /\ ShownReloadsReachTheCursor

-----------------------------------------------------------------------------
LEMMA InitRealtimeInv == Init => RealtimeInv
<1> SUFFICES ASSUME Init PROVE RealtimeInv
  OBVIOUS
<1> USE BoundsAssumption DEF Init
<1>1. TypeOK
  <2>1. Op("connect") \in Operations /\ Op("poll") \in Operations
    BY DEF Op, Operations, Seqs
  <2>2. queue \in Seq(Operations)
    BY <2>1
  <2>3. task \in Tasks
    BY <2>1 DEF IdleTask, Tasks, Phases, Seqs, ListIds
  <2>4. list \in [by : {"nobody", "member", "realtime"}, id : ListIds, snap : Seqs,
                   ready : BOOLEAN]
    BY DEF NoList, ListIds, Seqs
  <2>5. load \in [pc : {"none", "sent", "read"}, id : ListIds, snap : Seqs]
    BY DEF ListIds, Seqs
  <2>6. notified \in [Events -> Nat] /\ first \in 1 .. seq + 1 /\ listId \in ListIds
    BY DEF ListIds
  <2> QED
    BY <2>2, <2>3, <2>4, <2>5, <2>6 DEF TypeOK, Seqs
<1>2. FramesAreCommitted
  BY DEF FramesAreCommitted, Op, IdleTask
<1>3. ReloadsMoveForward /\ ReloadsReadTheirEvents
  BY DEF ReloadsMoveForward, ReloadsReadTheirEvents, IdleTask
<1>4. ReloadsBorrowInOrder /\ ShownReloadsReachTheCursor
  BY DEF ReloadsBorrowInOrder, ShownReloadsReachTheCursor, IdleTask, NoList
<1> QED
  BY <1>1, <1>2, <1>3, <1>4 DEF RealtimeInv

(* An operation that tells of no event, or of a committed one, may be      *)
(* queued, if it is of the queue's type.                                   *)
LEMMA EnqueueKeepsFrames ==
  ASSUME RealtimeInv, NEW op \in Operations, Enqueue(op),
         op.kind = "frame" => Committed(op.event)
  PROVE  /\ queue' \in Seq(Operations)
         /\ \A i \in DOMAIN queue' : queue'[i].kind = "frame" => Committed(queue'[i].event)
<1>1. queue \in Seq(Operations)
  BY DEF RealtimeInv, TypeOK
<1>2. /\ queue' \in Seq(Operations) /\ Len(queue') = Len(queue) + 1
      /\ \A i \in 1 .. Len(queue) : queue'[i] = queue[i]
      /\ queue'[Len(queue) + 1] = op
  BY <1>1, AppendProperties DEF Enqueue
<1>3. \A i \in DOMAIN queue' : i = Len(queue) + 1 \/ i \in DOMAIN queue
  BY <1>1, <1>2, LenProperties
<1> QED
  BY <1>1, <1>2, <1>3, LenProperties DEF RealtimeInv, FramesAreCommitted

(* The operation at the head of the queue leaves it.                       *)
LEMMA DequeueKeepsFrames ==
  ASSUME RealtimeInv, queue # <<>>, queue' = Tail(queue)
  PROVE  /\ queue' \in Seq(Operations)
         /\ Head(queue) \in Operations
         /\ Head(queue).kind = "frame" => Committed(Head(queue).event)
         /\ \A i \in DOMAIN queue' : queue'[i].kind = "frame" => Committed(queue'[i].event)
<1>1. queue \in Seq(Operations)
  BY DEF RealtimeInv, TypeOK
<1>2. /\ queue' \in Seq(Operations) /\ Head(queue) \in Operations
      /\ Head(queue) = queue[1] /\ 1 \in DOMAIN queue
      /\ \A i \in DOMAIN queue' : i + 1 \in DOMAIN queue /\ queue'[i] = queue[i + 1]
  BY <1>1, HeadTailProperties
<1> QED
  BY <1>2 DEF RealtimeInv, FramesAreCommitted

-----------------------------------------------------------------------------
LEMMA PublishKeepsInv == RealtimeInv /\ Publish => RealtimeInv'
<1> SUFFICES ASSUME RealtimeInv, Publish PROVE RealtimeInv'
  OBVIOUS
<1> USE DEF RealtimeInv, Publish, listVars
<1>0. /\ seq' \in Seqs /\ first' \in 1 .. seq' + 1
      /\ \A n \in frames' : n \in frames \/ n = seq'
  BY BoundsAssumption DEF TypeOK, Seqs
<1>1. TypeOK'
  <2>1. seq' \in Events
    BY BoundsAssumption DEF TypeOK, Seqs, Events
  <2>2. frames' \subseteq Events
    BY <1>0, <2>1 DEF TypeOK
  <2> QED
    BY <1>0, <2>2 DEF TypeOK
<1>2. FramesAreCommitted'
  BY <1>0, BoundsAssumption DEF TypeOK, Seqs, FramesAreCommitted, Committed
<1>3. ReloadsMoveForward'
  BY BoundsAssumption DEF TypeOK, Seqs, ReloadsMoveForward, Tasks
<1>4. (cursor <= seq)' /\ ReloadsReadTheirEvents' /\ ReloadsBorrowInOrder'
      /\ ShownReloadsReachTheCursor'
  BY BoundsAssumption DEF TypeOK, Seqs, ReloadsReadTheirEvents, ReloadsBorrowInOrder,
                          ShownReloadsReachTheCursor
<1> QED
  BY <1>1, <1>2, <1>3, <1>4

LEMMA TrimKeepsInv == RealtimeInv /\ Trim => RealtimeInv'
<1> SUFFICES ASSUME RealtimeInv, Trim PROVE RealtimeInv'
  OBVIOUS
<1> USE DEF RealtimeInv, Trim, listVars
<1>1. TypeOK'
  BY BoundsAssumption DEF TypeOK, Seqs, Events
<1> QED
  BY <1>1 DEF FramesAreCommitted, Committed, ReloadsMoveForward, ReloadsReadTheirEvents,
              ReloadsBorrowInOrder, ShownReloadsReachTheCursor

-----------------------------------------------------------------------------
(* Where an operation goes on: with a request for events, ...              *)
LEMMA AskForEventsKeepsInv ==
  ASSUME TypeOK, NEW op \in Operations, NEW live \in BOOLEAN, AskForEvents(op, live)
  PROVE  /\ task' \in Tasks
         /\ task'.op = op /\ task'.pc = "events"
<1>1. task' = [op |-> op, pc |-> "events", live |-> live, catchUp |-> TRUE,
               upTo |-> 0, more |-> FALSE, requestId |-> 0, snap |-> 0]
  BY DEF AskForEvents, IdleTask
<1> QED
  BY <1>1, BoundsAssumption DEF Tasks, Phases, Seqs, ListIds

(* ... with nothing, ...                                                   *)
LEMMA FinishKeepsInv ==
  ASSUME Finish
  PROVE  /\ task' \in Tasks
         /\ task'.op.kind # "frame" /\ task'.pc = "idle"
BY BoundsAssumption
DEF Finish, IdleTask, Tasks, Phases, Seqs, ListIds, Op, Operations

(* ... or with the reload of a batch.                                      *)
LEMMA ReloadKeepsInv ==
  ASSUME TypeOK, NEW op \in Operations, NEW live \in BOOLEAN, NEW catchUp \in BOOLEAN,
         NEW upTo \in Seqs, NEW more \in BOOLEAN, Reload(op, live, catchUp, upTo, more)
  PROVE  /\ task' \in Tasks
         /\ task'.op = op /\ task'.pc = "read" /\ task'.live = live
         /\ task'.catchUp = catchUp /\ task'.upTo = upTo /\ task'.requestId = listId
BY BoundsAssumption DEF Reload, Tasks, Phases, Seqs, ListIds, TypeOK

(* What is left to show of a step that leaves the list alone, and the      *)
(* operation idle, or at a request for events.                             *)
LEMMA QuietTaskKeepsInv ==
  ASSUME RealtimeInv, TypeOK', UNCHANGED <<seq, listId>>,
         (cursor <= seq)', FramesAreCommitted', ShownReloadsReachTheCursor',
         task'.pc \in {"idle", "events"},
         list'.by = "realtime" => list'.id <= listId
  PROVE  RealtimeInv'
BY DEF RealtimeInv, ReloadsMoveForward, ReloadsReadTheirEvents, ReloadsBorrowInOrder

(* The same for a step that begins the reload of a batch.                  *)
LEMMA ReloadStartKeepsInv ==
  ASSUME RealtimeInv, TypeOK', UNCHANGED <<seq, listId>>,
         (cursor <= seq)', FramesAreCommitted', ShownReloadsReachTheCursor',
         task'.pc \in {"read", "resyncRead"}, task'.requestId = listId,
         cursor' < task'.upTo, task'.upTo <= seq,
         task'.pc = "read" /\ ~task'.catchUp => task'.upTo = cursor' + 1 /\ task'.live,
         list'.by = "realtime" => list'.id <= listId
  PROVE  RealtimeInv'
BY DEF RealtimeInv, ReloadsMoveForward, ReloadsReadTheirEvents, ReloadsBorrowInOrder, TypeOK,
       Tasks, ListIds

LEMMA StartTaskKeepsInv == RealtimeInv /\ StartTask => RealtimeInv'
<1> SUFFICES ASSUME RealtimeInv, StartTask PROVE RealtimeInv'
  OBVIOUS
<1> DEFINE op == Head(queue)
<1>0. /\ TypeOK /\ cursor \in Seqs /\ seq \in Seqs
      /\ UNCHANGED <<seq, first, frames, socket, canNotify, cursor, notified,
                     listId, list, load, paging>>
      /\ queue # <<>> /\ queue' = Tail(queue)
  BY DEF RealtimeInv, TypeOK, StartTask, serverVars, listVars
<1>1. /\ queue' \in Seq(Operations) /\ op \in Operations
      /\ op.kind = "frame" => Committed(op.event)
      /\ \A i \in DOMAIN queue' : queue'[i].kind = "frame" => Committed(queue'[i].event)
  BY <1>0, DequeueKeepsFrames
<1>2. ShownReloadsReachTheCursor' /\ (cursor <= seq)'
      /\ (list'.by = "realtime" => list'.id <= listId)
  BY <1>0 DEF RealtimeInv, ShownReloadsReachTheCursor, ReloadsBorrowInOrder
<1>3. ASSUME task' \in Tasks, task'.op = op PROVE TypeOK' /\ FramesAreCommitted'
  <2>1. TypeOK'
    BY <1>0, <1>1, <1>3 DEF TypeOK
  <2>2. FramesAreCommitted'
    BY <1>0, <1>1, <1>3 DEF RealtimeInv, FramesAreCommitted, Committed
  <2> QED
    BY <2>1, <2>2
<1>4. CASE op.kind = "frame" /\ op.event = cursor + 1
  <2>1. Reload(op, TRUE, FALSE, op.event, FALSE) /\ op.event \in Seqs
    BY <1>1, <1>4 DEF StartTask, Operations
  <2>2. /\ task' \in Tasks /\ task'.op = op /\ task'.pc = "read" /\ task'.live
        /\ task'.upTo = op.event /\ task'.requestId = listId
    BY <1>0, <1>1, <2>1, ReloadKeepsInv
  <2>3. /\ cursor' < task'.upTo /\ task'.upTo <= seq
        /\ task'.upTo = cursor' + 1
    BY <1>0, <1>1, <1>4, <2>2, BoundsAssumption DEF Committed, Seqs
  <2> QED
    BY <1>0, <1>2, <1>3, <2>2, <2>3, ReloadStartKeepsInv
<1>5. CASE ~(op.kind = "frame" /\ op.event = cursor + 1)
  <2>1. AskForEvents(op, op.kind = "poll" /\ canNotify)
    BY <1>5 DEF StartTask
  <2>2. (op.kind = "poll" /\ canNotify) \in BOOLEAN
    OBVIOUS
  <2>3. task' \in Tasks /\ task'.op = op /\ task'.pc = "events"
    BY <1>0, <1>1, <2>1, <2>2, AskForEventsKeepsInv
  <2> QED
    BY <1>0, <1>2, <1>3, <2>3, QuietTaskKeepsInv
<1> QED
  BY <1>4, <1>5

Lists == [by : {"nobody", "member", "realtime"}, id : ListIds, snap : Seqs, ready : BOOLEAN]

LEMMA NumbersGoOn == \A n \in Nat : n < n + 1
OBVIOUS

(* The catch-up is over at the new cursor: the operation ends, or goes on  *)
(* with the reload for its own frame.                                      *)
LEMMA CaughtUpKeepsInv ==
  ASSUME RealtimeInv, CaughtUp(cursor'),
         cursor' \in Seqs, cursor' <= seq,
         UNCHANGED <<seq, first, frames, queue, listId, load, paging>>,
         notified' \in [Events -> Nat],
         list' \in Lists, list'.by = "realtime" => list'.id <= listId,
         ShownReloadsReachTheCursor'
  PROVE  RealtimeInv'
<1>0. TypeOK /\ task \in Tasks /\ task.op \in Operations /\ seq \in Seqs
  BY DEF RealtimeInv, TypeOK, Tasks
<1>1. canNotify' \in BOOLEAN /\ socket' \in {"none", "connecting", "open", "closing"}
  BY <1>0 DEF CaughtUp, TypeOK
<1>2. task' \in Tasks => TypeOK'
  BY <1>0, <1>1 DEF TypeOK, Lists
<1>3. (task'.op.kind = "frame" => Committed(task'.op.event)) => FramesAreCommitted'
  BY DEF RealtimeInv, FramesAreCommitted, Committed
<1>4. CASE task.op.kind = "frame" /\ task.op.event = cursor' + 1
  <2>1. Reload(task.op, TRUE, FALSE, task.op.event, FALSE) /\ task.op.event \in Seqs
    BY <1>0, <1>4 DEF CaughtUp, Operations
  <2>2. /\ task' \in Tasks /\ task'.op = task.op /\ task'.pc = "read" /\ task'.live
        /\ task'.upTo = task.op.event /\ task'.requestId = listId
    BY <1>0, <2>1, ReloadKeepsInv
  <2>3. Committed(task.op.event)
    BY <1>4 DEF RealtimeInv, FramesAreCommitted
  <2>4. /\ cursor' < task'.upTo /\ task'.upTo <= seq
        /\ task'.upTo = cursor' + 1
    <3>1. cursor' \in Nat /\ seq \in Nat
      BY <1>0, BoundsAssumption DEF Seqs
    <3>2. task.op.event <= seq
      BY <2>3, <3>1 DEF Committed
    <3>3. task'.upTo = cursor' + 1 /\ task'.upTo <= seq
      BY <1>4, <2>2, <3>2
    <3>4. cursor' < cursor' + 1
      BY <3>1, NumbersGoOn
    <3> QED
      BY <3>3, <3>4
  <2> QED
    BY <1>2, <1>3, <2>2, <2>3, <2>4, ReloadStartKeepsInv
<1>5. CASE ~(task.op.kind = "frame" /\ task.op.event = cursor' + 1)
  <2>1. Finish
    BY <1>5 DEF CaughtUp
  <2>2. task' \in Tasks /\ task'.op.kind # "frame" /\ task'.pc = "idle"
    BY <2>1, FinishKeepsInv
  <2> QED
    BY <1>2, <1>3, <2>2, QuietTaskKeepsInv
<1> QED
  BY <1>4, <1>5

(* A cursor that is gone is behind the oldest event that is left; a page   *)
(* ends behind the cursor.                                                 *)
LEMMA PagesMoveForward ==
  ASSUME RealtimeInv
  PROVE  /\ CursorGone(cursor) => cursor < seq
         /\ cursor # seq => cursor < PageEnd(cursor)
         /\ PageEnd(cursor) \in Seqs /\ PageEnd(cursor) <= seq
BY BoundsAssumption DEF RealtimeInv, TypeOK, Seqs, CursorGone, PageEnd

LEMMA FetchEventsKeepsInv == RealtimeInv /\ FetchEvents => RealtimeInv'
<1> SUFFICES ASSUME RealtimeInv, FetchEvents PROVE RealtimeInv'
  OBVIOUS
<1>0. /\ TypeOK /\ cursor \in Seqs /\ seq \in Seqs /\ task \in Tasks /\ listId \in ListIds
      /\ task.op \in Operations /\ task.live \in BOOLEAN /\ task.pc = "events"
      /\ UNCHANGED <<seq, first, frames, queue, cursor, notified, listId, list, load, paging>>
  BY DEF RealtimeInv, TypeOK, Tasks, FetchEvents, serverVars, listVars, CaughtUp
<1>1. ShownReloadsReachTheCursor' /\ (cursor <= seq)'
      /\ (list'.by = "realtime" => list'.id <= listId)
  BY <1>0 DEF RealtimeInv, ShownReloadsReachTheCursor, ReloadsBorrowInOrder
<1>2. ASSUME task' \in Tasks, task'.op = task.op, UNCHANGED <<socket, canNotify>>
      PROVE  TypeOK' /\ FramesAreCommitted'
  BY <1>0, <1>2 DEF TypeOK, RealtimeInv, FramesAreCommitted, Committed
<1>3. CASE CursorGone(cursor)
  <2>1. /\ task' = [task EXCEPT !.pc = "resyncRead", !.upTo = seq, !.requestId = listId]
        /\ UNCHANGED <<socket, canNotify>>
    BY <1>3 DEF FetchEvents
  <2>2. /\ task' \in Tasks /\ task'.op = task.op /\ task'.pc = "resyncRead"
        /\ task'.upTo = seq /\ task'.requestId = listId
    BY <1>0, <2>1 DEF Tasks, Phases
  <2>3. cursor' < task'.upTo /\ task'.upTo <= seq
    BY <1>0, <1>3, <2>2, PagesMoveForward, BoundsAssumption DEF Seqs
  <2> QED
    BY <1>0, <1>1, <1>2, <2>1, <2>2, <2>3, ReloadStartKeepsInv
<1>4. CASE ~CursorGone(cursor) /\ cursor = seq
  <2>1. CaughtUp(cursor')
    BY <1>0, <1>4 DEF FetchEvents
  <2>2. notified \in [Events -> Nat] /\ list \in Lists
    BY <1>0 DEF TypeOK, Lists
  <2> QED
    BY <1>0, <1>1, <2>1, <2>2, CaughtUpKeepsInv
<1>5. CASE ~CursorGone(cursor) /\ cursor # seq
  <2>1. /\ Reload(task.op, task.live, TRUE, PageEnd(cursor), HasMore(cursor))
        /\ UNCHANGED <<socket, canNotify>>
    BY <1>5 DEF FetchEvents
  <2>2. PageEnd(cursor) \in Seqs /\ cursor < PageEnd(cursor) /\ PageEnd(cursor) <= seq
    BY <1>5, PagesMoveForward
  <2>3. HasMore(cursor) \in BOOLEAN
    BY DEF HasMore
  <2>4. /\ task' \in Tasks /\ task'.op = task.op /\ task'.pc = "read" /\ task'.catchUp
        /\ task'.upTo = PageEnd(cursor) /\ task'.requestId = listId
    BY <1>0, <2>1, <2>2, <2>3, ReloadKeepsInv
  <2> QED
    BY <1>0, <1>1, <1>2, <2>1, <2>2, <2>4, ReloadStartKeepsInv
<1> QED
  BY <1>3, <1>4, <1>5

LEMMA ReadListKeepsInv == RealtimeInv /\ ReadList => RealtimeInv'
<1> SUFFICES ASSUME RealtimeInv, ReadList PROVE RealtimeInv'
  OBVIOUS
<1>0. /\ TypeOK /\ task \in Tasks /\ seq \in Seqs
      /\ task.pc \in {"read", "resyncRead"}
      /\ UNCHANGED <<seq, first, frames, socket, canNotify, queue, cursor, notified,
                     listId, list, load, paging>>
  BY DEF RealtimeInv, TypeOK, ReadList, serverVars, listVars
<1>1. /\ task' = [task EXCEPT !.pc = IF task.pc = "read" THEN "dispatch" ELSE "resyncDispatch",
                              !.snap = seq]
      /\ task' \in Tasks
  BY <1>0 DEF ReadList, Tasks, Phases
<1>2. /\ task'.op = task.op /\ task'.snap = seq /\ task'.upTo = task.upTo
      /\ task'.catchUp = task.catchUp /\ task'.live = task.live
      /\ task'.requestId = task.requestId
      /\ task'.pc = IF task.pc = "read" THEN "dispatch" ELSE "resyncDispatch"
  BY <1>0, <1>1 DEF Tasks
<1>3. TypeOK'
  BY <1>0, <1>1 DEF TypeOK
<1>4. ReloadsMoveForward' /\ ReloadsReadTheirEvents'
  BY <1>0, <1>2 DEF RealtimeInv, ReloadsMoveForward, ReloadsReadTheirEvents
<1>5. /\ FramesAreCommitted' /\ ReloadsBorrowInOrder' /\ ShownReloadsReachTheCursor'
      /\ (cursor <= seq)'
  BY <1>0, <1>2 DEF RealtimeInv, FramesAreCommitted, Committed, ReloadsBorrowInOrder,
                    ShownReloadsReachTheCursor
<1> QED
  BY <1>3, <1>4, <1>5 DEF RealtimeInv

-----------------------------------------------------------------------------
(* A reload that is shown now holds everything up to the end of its batch, *)
(* and one that is dropped leaves no older reload under the current id.    *)
LEMMA ReloadIsShown ==
  ASSUME RealtimeInv, task.pc \in {"dispatch", "resyncDispatch"},
         UNCHANGED listId, ShowList("realtime", task.requestId, task.snap),
         cursor' \in {cursor, task.upTo}
  PROVE  /\ list' \in Lists
         /\ list'.by = "realtime" => list'.id <= listId
         /\ ShownReloadsReachTheCursor'
<1>0. /\ TypeOK /\ task \in Tasks /\ list \in Lists /\ cursor \in Seqs /\ listId \in ListIds
      /\ task.requestId \in ListIds /\ task.snap \in Seqs /\ task.upTo \in Seqs
  BY DEF RealtimeInv, TypeOK, Lists, Tasks
<1>1. task.snap >= task.upTo /\ cursor < task.upTo
  BY DEF RealtimeInv, ReloadsReadTheirEvents, ReloadsMoveForward
<1>2. /\ list.by = "realtime" => list.id <= task.requestId
      /\ task.requestId <= listId
  BY DEF RealtimeInv, ReloadsBorrowInOrder
<1>3. CASE task.requestId = listId
  <2>1. list' = [by |-> "realtime", id |-> task.requestId, snap |-> task.snap, ready |-> TRUE]
    BY <1>3 DEF ShowList
  <2>2. list' \in Lists /\ list'.id <= listId
    BY <1>0, <1>2, <2>1 DEF Lists
  <2>3. list'.snap >= cursor'
    BY <1>0, <1>1, <2>1 DEF Seqs
  <2> QED
    BY <2>2, <2>3 DEF ShownReloadsReachTheCursor
<1>4. CASE task.requestId # listId
  <2>1. list' = list
    BY <1>4 DEF ShowList
  <2>2. list.by = "realtime" => list.id < listId
    BY <1>0, <1>2, <1>4, BoundsAssumption DEF ListIds, Lists
  <2> QED
    BY <1>0, <2>1, <2>2, BoundsAssumption DEF ShownReloadsReachTheCursor, ListIds, Lists
<1> QED
  BY <1>3, <1>4

LEMMA ApplyEventsKeepsInv == RealtimeInv /\ ApplyEvents => RealtimeInv'
<1> SUFFICES ASSUME RealtimeInv, ApplyEvents PROVE RealtimeInv'
  OBVIOUS
<1>0. /\ TypeOK /\ task \in Tasks /\ seq \in Seqs /\ task.pc = "dispatch"
      /\ task.op \in Operations /\ task.live \in BOOLEAN /\ task.upTo \in Seqs
      /\ cursor' = task.upTo
      /\ UNCHANGED <<seq, first, frames, queue, listId, load, paging>>
  BY DEF RealtimeInv, TypeOK, Tasks, ApplyEvents, serverVars
<1>1. /\ list' \in Lists /\ (list'.by = "realtime" => list'.id <= listId)
      /\ ShownReloadsReachTheCursor'
  BY <1>0, ReloadIsShown DEF ApplyEvents
<1>2. cursor' \in Seqs /\ cursor' <= seq
  BY <1>0 DEF RealtimeInv, ReloadsMoveForward
<1>3. notified' \in [Events -> Nat]
  BY <1>0 DEF ApplyEvents, Notify, TypeOK
<1>4. ASSUME task' \in Tasks, UNCHANGED <<socket, canNotify>>,
             task'.op.kind = "frame" => task'.op = task.op
      PROVE  TypeOK' /\ FramesAreCommitted'
  <2>1. TypeOK'
    BY <1>0, <1>1, <1>2, <1>3, <1>4 DEF TypeOK, Lists
  <2>2. FramesAreCommitted'
    BY <1>0, <1>4 DEF RealtimeInv, FramesAreCommitted, Committed
  <2> QED
    BY <2>1, <2>2
<1>5. CASE task.catchUp /\ task.more
  <2>1. AskForEvents(task.op, task.live) /\ UNCHANGED <<socket, canNotify>>
    BY <1>5 DEF ApplyEvents
  <2>2. task' \in Tasks /\ task'.op = task.op /\ task'.pc = "events"
    BY <1>0, <2>1, AskForEventsKeepsInv
  <2> QED
    BY <1>0, <1>1, <1>2, <1>4, <2>1, <2>2, QuietTaskKeepsInv
<1>6. CASE task.catchUp /\ ~task.more
  <2>1. CaughtUp(cursor')
    BY <1>0, <1>6 DEF ApplyEvents
  <2> QED
    BY <1>0, <1>1, <1>2, <1>3, <2>1, CaughtUpKeepsInv
<1>7. CASE ~task.catchUp
  <2>1. Finish /\ UNCHANGED <<socket, canNotify>>
    BY <1>7 DEF ApplyEvents
  <2>2. task' \in Tasks /\ task'.op.kind # "frame" /\ task'.pc = "idle"
    BY <2>1, FinishKeepsInv
  <2> QED
    BY <1>0, <1>1, <1>2, <1>4, <2>1, <2>2, QuietTaskKeepsInv
<1> QED
  BY <1>5, <1>6, <1>7

LEMMA FullResyncKeepsInv == RealtimeInv /\ FullResync => RealtimeInv'
<1> SUFFICES ASSUME RealtimeInv, FullResync PROVE RealtimeInv'
  OBVIOUS
<1>0. /\ TypeOK /\ task \in Tasks /\ seq \in Seqs /\ task.pc = "resyncDispatch"
      /\ task.op \in Operations /\ task.upTo \in Seqs /\ cursor' = task.upTo
      /\ UNCHANGED <<seq, first, frames, socket, canNotify, queue, notified,
                     listId, load, paging>>
  BY DEF RealtimeInv, TypeOK, Tasks, FullResync, serverVars
<1>1. /\ list' \in Lists /\ (list'.by = "realtime" => list'.id <= listId)
      /\ ShownReloadsReachTheCursor'
  BY <1>0, ReloadIsShown DEF FullResync
<1>2. cursor' \in Seqs /\ cursor' <= seq
  BY <1>0 DEF RealtimeInv, ReloadsMoveForward
<1>3. task' \in Tasks /\ task'.op = task.op /\ task'.pc = "events"
  BY <1>0, AskForEventsKeepsInv DEF FullResync
<1>4. TypeOK'
  BY <1>0, <1>1, <1>2, <1>3 DEF TypeOK, Lists
<1>5. FramesAreCommitted'
  BY <1>0, <1>3 DEF RealtimeInv, FramesAreCommitted, Committed
<1> QED
  BY <1>0, <1>1, <1>2, <1>3, <1>4, <1>5, QuietTaskKeepsInv

LEMMA TaskFailsKeepsInv == RealtimeInv /\ TaskFails => RealtimeInv'
<1> SUFFICES ASSUME RealtimeInv, TaskFails PROVE RealtimeInv'
  OBVIOUS
<1>0. /\ TypeOK /\ list \in Lists
      /\ UNCHANGED <<seq, first, queue, cursor, notified, listId, load, paging>>
      /\ frames' \in {frames, {}} /\ canNotify' \in BOOLEAN
      /\ socket' \in {"none", "connecting", "open", "closing"}
  BY DEF RealtimeInv, TypeOK, Lists, TaskFails
<1>1. /\ list' \in Lists /\ (list'.by = "realtime" => list'.id <= listId)
      /\ ShownReloadsReachTheCursor'
  <2>1. CASE UNCHANGED list
    BY <1>0, <2>1 DEF RealtimeInv, ReloadsBorrowInOrder, ShownReloadsReachTheCursor
  <2>2. CASE task.pc = "dispatch" /\ ShowList("realtime", task.requestId, task.snap)
    BY <1>0, <2>2, ReloadIsShown
  <2> QED
    BY <2>1, <2>2 DEF TaskFails
<1>2. task' \in Tasks /\ task'.op.kind # "frame" /\ task'.pc = "idle"
  BY FinishKeepsInv DEF TaskFails
<1>3. TypeOK'
  BY <1>0, <1>1, <1>2 DEF TypeOK, Lists
<1>4. FramesAreCommitted' /\ (cursor <= seq)'
  BY <1>0, <1>2 DEF RealtimeInv, FramesAreCommitted, Committed
<1> QED
  BY <1>0, <1>1, <1>2, <1>3, <1>4, QuietTaskKeepsInv

-----------------------------------------------------------------------------
(* The socket and the timers queue an operation or none, and leave what is *)
(* running, the cursor and the list alone.                                 *)
LEMMA OutsideStepKeepsInv ==
  ASSUME RealtimeInv, UNCHANGED <<seq, first, task, cursor, notified, listId, list, load, paging>>,
         frames' \subseteq frames, canNotify' \in BOOLEAN,
         socket' \in {"none", "connecting", "open", "closing"},
         \/ UNCHANGED queue
         \/ \E op \in Operations : /\ Enqueue(op)
                                   /\ op.kind = "frame" => Committed(op.event)
  PROVE  RealtimeInv'
<1>1. /\ queue' \in Seq(Operations)
      /\ \A i \in DOMAIN queue' : queue'[i].kind = "frame" => Committed(queue'[i].event)
  <2>1. CASE UNCHANGED queue
    BY <2>1 DEF RealtimeInv, TypeOK, FramesAreCommitted
  <2>2. ASSUME NEW op \in Operations, Enqueue(op), op.kind = "frame" => Committed(op.event)
        PROVE  /\ queue' \in Seq(Operations)
               /\ \A i \in DOMAIN queue' :
                    queue'[i].kind = "frame" => Committed(queue'[i].event)
    BY <2>2, EnqueueKeepsFrames
  <2>3. CASE \E op \in Operations : Enqueue(op) /\ (op.kind = "frame" => Committed(op.event))
    <3>1. PICK op \in Operations : Enqueue(op) /\ (op.kind = "frame" => Committed(op.event))
      BY <2>3
    <3> QED
      BY <2>2, <3>1
  <2> QED
    BY <2>1, <2>3
<1>2. TypeOK'
  BY <1>1 DEF RealtimeInv, TypeOK
<1>3. FramesAreCommitted'
  BY <1>1 DEF RealtimeInv, FramesAreCommitted, Committed
<1> QED
  BY <1>2, <1>3 DEF RealtimeInv, ReloadsMoveForward, ReloadsReadTheirEvents,
                    ReloadsBorrowInOrder, ShownReloadsReachTheCursor

LEMMA SocketStepsKeepInv ==
  ASSUME RealtimeInv,
         \/ SocketOpens \/ SocketCloses \/ PollTimer \/ Reconnect
         \/ \E n \in Events : FrameArrives(n)
  PROVE  RealtimeInv'
<1>0. TypeOK /\ \A kind \in {"connect", "open", "poll"} : Op(kind) \in Operations
  BY BoundsAssumption DEF RealtimeInv, Op, Operations, Seqs
<1>1. CASE SocketOpens \/ PollTimer \/ Reconnect
  <2>1. PICK kind \in {"connect", "open", "poll"} : Enqueue(Op(kind))
    BY <1>1 DEF SocketOpens, PollTimer, Reconnect
  <2>2. \E op \in Operations : Enqueue(op) /\ (op.kind = "frame" => Committed(op.event))
    BY <1>0, <2>1 DEF Op
  <2>3. /\ UNCHANGED <<seq, first, task, cursor, notified, listId, list, load, paging>>
        /\ frames' \subseteq frames /\ canNotify' \in BOOLEAN
        /\ socket' \in {"none", "connecting", "open", "closing"}
    BY <1>0, <1>1 DEF SocketOpens, PollTimer, Reconnect, serverVars, listVars, TypeOK
  <2> QED
    BY <2>2, <2>3, OutsideStepKeepsInv
<1>2. CASE SocketCloses
  BY <1>0, <1>2, OutsideStepKeepsInv DEF SocketCloses, listVars
<1>3. ASSUME NEW n \in Events, FrameArrives(n) PROVE RealtimeInv'
  <2>1. Committed(n)
    BY <1>3 DEF FrameArrives, RealtimeInv, FramesAreCommitted
  <2>2. [kind |-> "frame", event |-> n] \in Operations
    BY BoundsAssumption DEF Operations, Seqs, Events
  <2>3. /\ UNCHANGED <<seq, first, task, cursor, notified, listId, list, load, paging>>
        /\ UNCHANGED <<canNotify, socket>> /\ frames' \subseteq frames
        /\ Enqueue([kind |-> "frame", event |-> n])
    BY <1>3 DEF FrameArrives, listVars
  <2>4. \E op \in Operations : Enqueue(op) /\ (op.kind = "frame" => Committed(op.event))
    BY <2>1, <2>2, <2>3
  <2> QED
    BY <1>0, <2>3, <2>4, OutsideStepKeepsInv DEF TypeOK
<1> QED
  BY <1>1, <1>2, <1>3

(* The member's own requests give new ids, and never show a list that a    *)
(* reload has loaded.                                                      *)
LEMMA MemberStepKeepsInv ==
  ASSUME RealtimeInv,
         UNCHANGED <<seq, first, frames, socket, canNotify, queue, task, cursor, notified>>,
         listId' \in ListIds, list' \in Lists, paging' \in BOOLEAN,
         load' \in [pc : {"none", "sent", "read"}, id : ListIds, snap : Seqs],
         listId' >= listId,
         list'.by = "realtime" =>
           list.by = "realtime" /\ list'.id = list.id /\ list'.snap = list.snap
  PROVE  RealtimeInv'
<1>1. TypeOK'
  BY DEF RealtimeInv, TypeOK, Lists
<1>2. TypeOK /\ listId \in ListIds /\ list \in Lists /\ task.requestId \in ListIds
  BY DEF RealtimeInv, TypeOK, Lists, Tasks
<1>3. ReloadsBorrowInOrder'
  BY <1>2, BoundsAssumption DEF RealtimeInv, ReloadsBorrowInOrder, ListIds, Lists
<1>4. ShownReloadsReachTheCursor'
  BY <1>2, BoundsAssumption
  DEF RealtimeInv, ReloadsBorrowInOrder, ShownReloadsReachTheCursor, ListIds, Lists
<1> QED
  BY <1>1, <1>3, <1>4 DEF RealtimeInv, FramesAreCommitted, Committed, ReloadsMoveForward,
                          ReloadsReadTheirEvents

LEMMA ListStepsKeepInv ==
  ASSUME RealtimeInv,
         \/ ChangeFilter \/ ReadMembersList \/ ShowMembersList \/ MembersListFails
         \/ LoadMore \/ LoadMoreEnds
  PROVE  RealtimeInv'
<1> DEFINE Requests == [pc : {"none", "sent", "read"}, id : ListIds, snap : Seqs]
<1>0. /\ TypeOK /\ seq \in Seqs /\ listId \in ListIds /\ list \in Lists /\ load \in Requests
      /\ NoList \in Lists /\ NoLoad \in Requests /\ paging \in BOOLEAN
      /\ listId \in Nat
  BY BoundsAssumption DEF RealtimeInv, TypeOK, Lists, NoList, NoLoad, ListIds, Seqs
<1>1. CASE ChangeFilter
  <2>1. listId' = listId + 1 /\ listId' \in ListIds
    BY <1>0, <1>1, BoundsAssumption DEF ChangeFilter, ListIds
  <2>2. load' \in Requests
    BY <1>0, <1>1, <2>1, BoundsAssumption DEF ChangeFilter, Seqs
  <2>3. list' \in Lists /\ list'.by # "realtime" /\ listId' >= listId /\ paging' \in BOOLEAN
    <3>1. list' = NoList /\ paging' = FALSE
      BY <1>1 DEF ChangeFilter
    <3>2. NoList.by # "realtime"
      BY DEF NoList
    <3>3. listId' >= listId
      BY <1>0, <2>1
    <3> QED
      BY <1>0, <3>1, <3>2, <3>3
  <2>4. UNCHANGED <<seq, first, frames, socket, canNotify, queue, task, cursor, notified>>
    BY <1>1 DEF ChangeFilter, serverVars
  <2> QED
    BY <2>1, <2>2, <2>3, <2>4, MemberStepKeepsInv
<1>2. CASE ReadMembersList
  <2>1. load' \in Requests
    BY <1>0, <1>2 DEF ReadMembersList
  <2>2. /\ UNCHANGED <<seq, first, frames, socket, canNotify, queue, task, cursor, notified>>
        /\ UNCHANGED <<listId, list, paging>>
    BY <1>2 DEF ReadMembersList, serverVars
  <2> QED
    BY <1>0, <2>1, <2>2, MemberStepKeepsInv
<1>3. CASE ShowMembersList
  <2>1. list' = list \/ list' = [by |-> "member", id |-> load.id, snap |-> load.snap, ready |-> TRUE]
    BY <1>3 DEF ShowMembersList, ShowList
  <2>2. load.id \in ListIds /\ load.snap \in Seqs
    BY <1>0
  <2>3. [by |-> "member", id |-> load.id, snap |-> load.snap, ready |-> TRUE] \in Lists
    BY <2>2 DEF Lists
  <2>4. list' \in Lists /\ (list'.by = "realtime" => list' = list)
    <3>1. [by |-> "member", id |-> load.id, snap |-> load.snap, ready |-> TRUE].by # "realtime"
      OBVIOUS
    <3> QED
      BY <1>0, <2>1, <2>3, <3>1
  <2> QED
    BY <1>0, <1>3, <2>4, MemberStepKeepsInv DEF ShowMembersList, serverVars
<1>4. CASE MembersListFails
  <2>1. /\ list' \in Lists /\ list'.by = list.by /\ list'.id = list.id
        /\ list'.snap = list.snap
    BY <1>0, <1>4 DEF MembersListFails, Lists
  <2> QED
    BY <1>0, <1>4, <2>1, MemberStepKeepsInv DEF MembersListFails, serverVars
<1>5. CASE LoadMore
  <2>1. listId' = listId + 1 /\ listId' \in ListIds
    BY <1>0, <1>5, BoundsAssumption DEF LoadMore, ListIds
  <2> QED
    BY <1>0, <1>5, <2>1, MemberStepKeepsInv DEF LoadMore, serverVars
<1>6. CASE LoadMoreEnds
  <2>1. /\ UNCHANGED <<seq, first, frames, socket, canNotify, queue, task, cursor, notified>>
        /\ UNCHANGED <<listId, list, load>> /\ paging' \in BOOLEAN
    BY <1>6 DEF LoadMoreEnds, serverVars
  <2> QED
    BY <1>0, <2>1, MemberStepKeepsInv
<1> QED
  BY <1>1, <1>2, <1>3, <1>4, <1>5, <1>6

LEMMA NextKeepsRealtimeInv == RealtimeInv /\ [Next]_vars => RealtimeInv'
<1> SUFFICES ASSUME RealtimeInv, [Next]_vars PROVE RealtimeInv'
  OBVIOUS
<1>1. CASE UNCHANGED vars
  BY <1>1 DEF vars, RealtimeInv, TypeOK, FramesAreCommitted, Committed, ReloadsMoveForward,
              ReloadsReadTheirEvents, ReloadsBorrowInOrder, ShownReloadsReachTheCursor
<1> QED
  BY <1>1, PublishKeepsInv, TrimKeepsInv, StartTaskKeepsInv, FetchEventsKeepsInv,
     ReadListKeepsInv, ApplyEventsKeepsInv, FullResyncKeepsInv, TaskFailsKeepsInv,
     SocketStepsKeepInv, ListStepsKeepInv
  DEF Next

(* The strengthened invariant holds in every reachable state.              *)
THEOREM RealtimeInvariant == Spec => []RealtimeInv
<1> QED
  BY InitRealtimeInv, NextKeepsRealtimeInv, PTL DEF Spec

(* The log, the queue, the operation under way, the cursor and the list    *)
(* stay in their types (Realtime.TypeOK), whatever the bounds.             *)
THEOREM RealtimeTypeCorrect == Spec => []TypeOK
<1>1. RealtimeInv => TypeOK
  BY DEF RealtimeInv
<1> QED
  BY <1>1, RealtimeInvariant, PTL

(* A list shown by a realtime reload under the current request id holds    *)
(* every event the cursor was moved over, with any number of events,       *)
(* frames, failures and list requests of the member (applyLiveEvents,      *)
(* recoverGoneCursor, conversationListLoadSucceeded).                      *)
THEOREM ReloadsReachTheCursor == Spec => []ShownReloadsReachTheCursor
<1>1. RealtimeInv => ShownReloadsReachTheCursor
  BY DEF RealtimeInv
<1> QED
  BY <1>1, RealtimeInvariant, PTL

-----------------------------------------------------------------------------
(* The client implements the feed.                                         *)
LEMMA InitRefinesFeed == Init => Feed!Init
BY DEF Init, Feed!Init, Events, Feed!Events

(* A step that moves the cursor takes in the events of the batch, in one   *)
(* piece, and notifies of all of them or of none.                          *)
LEMMA TakingInRefinesFeed ==
  ASSUME RealtimeInv, ApplyEvents \/ FullResync
  PROVE  Feed!TakeIn(task.upTo) /\ task.upTo \in Feed!Events
<1>0. /\ TypeOK /\ task \in Tasks /\ cursor \in Seqs /\ seq \in Seqs /\ task.upTo \in Seqs
      /\ notified \in [Events -> Nat] /\ task.live \in BOOLEAN
  BY DEF RealtimeInv, TypeOK, Tasks
<1>1. cursor' = task.upTo /\ cursor < task.upTo /\ task.upTo <= seq /\ UNCHANGED seq
  BY DEF RealtimeInv, ReloadsMoveForward, ApplyEvents, FullResync, serverVars
<1>2. task.upTo \in Feed!Events
  BY <1>0, <1>1, BoundsAssumption DEF Feed!Events, Seqs
<1>3. \/ notified' = [e \in Events |-> IF e \in cursor + 1 .. task.upTo THEN notified[e] + 1
                                       ELSE notified[e]]
      \/ UNCHANGED notified
  <2>1. CASE FullResync
    BY <2>1 DEF FullResync
  <2>2. CASE ApplyEvents /\ ~task.live
    BY <1>0, <2>2 DEF ApplyEvents, Notify
  <2>3. CASE ApplyEvents /\ task.live
    <3>1. task.pc = "dispatch" /\ Notify
      BY <2>3 DEF ApplyEvents
    <3>2. ~task.catchUp => task.upTo = cursor + 1
      BY <3>1 DEF RealtimeInv, ReloadsMoveForward
    <3>3. Batch = cursor + 1 .. task.upTo
      <4>1. CASE task.catchUp
        BY <4>1 DEF Batch
      <4>2. CASE ~task.catchUp
        <5>1. Batch = {cursor + 1} /\ task.upTo = cursor + 1
          BY <3>2, <4>2 DEF Batch
        <5>2. cursor + 1 \in Nat
          BY <1>0, BoundsAssumption DEF Seqs
        <5>3. (cursor + 1) .. (cursor + 1) = {cursor + 1}
          BY <5>2
        <5> QED
          BY <5>1, <5>3
      <4> QED
        BY <4>1, <4>2
    <3>4. notified' = [n \in Events |-> notified[n] + IF n \in Batch THEN 1 ELSE 0]
      BY <2>3, <3>1 DEF Notify
    <3> QED
      BY <1>0, <3>3, <3>4
  <2> QED
    BY <2>1, <2>2, <2>3
<1> QED
  BY <1>1, <1>2, <1>3 DEF Feed!TakeIn, Feed!Events, Events

LEMMA StepRefinesFeed ==
  ASSUME RealtimeInv, [Next]_vars
  PROVE  [Feed!Next]_(Feed!vars)
<1>1. CASE ApplyEvents \/ FullResync
  BY <1>1, TakingInRefinesFeed DEF Feed!Next
<1>2. CASE Publish
  BY <1>2 DEF Publish, Feed!Next, Feed!Publish
<1>3. ASSUME \/ Trim \/ StartTask \/ FetchEvents \/ ReadList \/ TaskFails
             \/ SocketOpens \/ SocketCloses \/ PollTimer \/ Reconnect
             \/ \E n \in Events : FrameArrives(n)
             \/ ChangeFilter \/ ReadMembersList \/ ShowMembersList \/ MembersListFails
             \/ LoadMore \/ LoadMoreEnds \/ UNCHANGED vars
      PROVE  UNCHANGED <<seq, cursor, notified>>
  BY <1>3 DEF Trim, StartTask, FetchEvents, ReadList, TaskFails, SocketOpens, SocketCloses,
              PollTimer, Reconnect, FrameArrives, ChangeFilter, ReadMembersList,
              ShowMembersList, MembersListFails, LoadMore, LoadMoreEnds, vars, serverVars
<1> QED
  BY <1>1, <1>2, <1>3 DEF Next, Feed!vars

(* The subscription loop implements EventFeed: whatever frames, requests   *)
(* and trimming do, the inbox takes the events in without a gap and in     *)
(* order, and notifies of each at most once.                               *)
THEOREM RealtimeImplementsFeed == Spec => ImplementsFeed
<1>1. RealtimeInv /\ [Next]_vars => [Feed!Next]_(Feed!vars)
  BY StepRefinesFeed
<1> QED
  BY <1>1, InitRefinesFeed, RealtimeInvariant, PTL DEF Spec, ImplementsFeed, Feed!Spec
=============================================================================
