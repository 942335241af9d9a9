----------------------------- MODULE CardItems ------------------------------
(***************************************************************************)
(* The tasks and notes of a conversation: the routes that write them       *)
(* (worker/routes/tasks.ts, worker/routes/notes.ts) and the lists of them  *)
(* in the clients, which show a change before it is answered               *)
(* (src/hooks/useCustomerCard.ts, src/state/customerCardModel.ts).         *)
(*                                                                         *)
(* A write is one batch of a statement and its event; a note is read again *)
(* for the answer, a task is returned by the statement.  A note is its     *)
(* author's to change, a task anybody's.  A client may reload at any time, *)
(* and an answer may be lost on the way.                                   *)
(***************************************************************************)
EXTENDS SequencesExt, Arrays

CONSTANTS
  People,
  Items,         \* ids the server gives, in their order
  Notes,         \* those that are notes, the others being tasks
  ItemRequests,
  Bodies,
  LastMs,        \* bound: milliseconds explored
  NoPerson

ASSUME ItemAssumption ==
  /\ Items \subseteq Nat /\ Notes \subseteq Items
  /\ LastMs \in Nat
  /\ Items \intersect ItemRequests = {}
  /\ NoPerson \notin People \union Bodies \union Items \union ItemRequests

VARIABLES
  ms,         \* the clock of the workers
  item,       \* rows of tasks and notes
  list,       \* what each client shows
  wish,       \* the requests
  deletions   \* events task.deleted and note.deleted about each item

itemVars == <<ms, item, list, wish, deletions>>

Entries == [id : Items \union ItemRequests, body : Bodies]
NoEntry == [id |-> NoPerson, body |-> NoPerson]
NoItem == [state |-> "none", author |-> NoPerson, body |-> NoPerson, deletedAt |-> 0]
NoRequest == [pc |-> "none", kind |-> "create", by |-> NoPerson, entry |-> NoEntry,
              previous |-> NoEntry, now |-> 0, open |-> FALSE]

ItemTypeOK ==
  /\ ms \in 0..LastMs
  /\ item \in [Items -> [state : {"none", "active", "deleted"}, author : People \union {NoPerson},
                         body : Bodies \union {NoPerson}, deletedAt : 0..LastMs]]
  /\ \A p \in People : list[p] \in Seq(Entries)
  /\ wish \in [ItemRequests ->
                 [pc : {"none", "sent", "batch", "reread", "done", "refused", "over"},
                  kind : {"create", "update", "delete"}, by : People \union {NoPerson},
                  entry : Entries \union {NoEntry}, previous : Entries \union {NoEntry},
                  now : 0..LastMs, open : BOOLEAN]]
  /\ deletions \in [Items -> Nat]

ItemInit ==
  /\ ms = 0
  /\ item = [i \in Items |-> NoItem]
  /\ list = [p \in People |-> <<>>]
  /\ wish = [r \in ItemRequests |-> NoRequest]
  /\ deletions = [i \in Items |-> 0]

Position(entries, id) == SelectInSeq(entries, LAMBDA e : e.id = id)

(* Mutant: an item that a reload has shown already is not looked for.      *)
ReplaceOnlyTheOptimistic(entries, entry, optimistic) ==
  LET o == Position(entries, optimistic)
  IN IF o = 0 THEN Append(entries, entry) ELSE [entries EXCEPT ![o] = entry]

(* replaceByRequestItem: the answered item takes the place of the row      *)
(* shown for it, and of the one a reload has shown meanwhile.              *)
ReplaceByRequestItem(entries, entry, optimistic) ==
  LET o == Position(entries, optimistic)
      shown == Position(entries, entry.id)
      at == IF o # 0 THEN o ELSE shown
      replaced == [entries EXCEPT ![at] = entry]
  IN IF at = 0 THEN Append(entries, entry)
     ELSE IF o # 0 /\ shown \notin {0, o} THEN RemoveAt(replaced, shown) ELSE replaced

Without(entries, id) == Filtered(entries, {j \in DOMAIN entries : entries[j].id # id})

-----------------------------------------------------------------------------
(* The client.                                                             *)
CreateItemOptimistically(p, r, b) ==
  /\ wish[r] = NoRequest
  /\ LET entry == [id |-> r, body |-> b]
     IN /\ list' = [list EXCEPT ![p] = Append(list[p], entry)]
        /\ wish' = [wish EXCEPT ![r] = [NoRequest EXCEPT !.pc = "sent", !.by = p,
                                        !.entry = entry, !.open = TRUE]]
  /\ UNCHANGED <<ms, item, deletions>>

BeingDeleted(p, id) ==
  \E r \in ItemRequests : /\ wish[r].kind = "delete" /\ wish[r].open
                          /\ wish[r].by = p /\ wish[r].entry.id = id

(* A row may be edited before the answer to its creation is there.         *)
UpdateItemOptimistically(p, r, k, b) ==
  /\ wish[r] = NoRequest
  /\ LET previous == list[p][k]
         entry == [previous EXCEPT !.body = b]
     IN /\ ~BeingDeleted(p, previous.id)
        /\ list' = [list EXCEPT ![p][k] = entry]
        /\ wish' = [wish EXCEPT ![r] = [NoRequest EXCEPT !.pc = "sent", !.kind = "update",
                                        !.by = p, !.entry = entry, !.previous = previous,
                                        !.open = TRUE]]
  /\ UNCHANGED <<ms, item, deletions>>

(* A deleted row is shown until the answer.                                *)
StartDelete(p, r, k) ==
  /\ wish[r] = NoRequest
  /\ ~BeingDeleted(p, list[p][k].id)
  /\ wish' = [wish EXCEPT ![r] = [NoRequest EXCEPT !.pc = "sent", !.kind = "delete",
                                  !.by = p, !.entry = list[p][k], !.open = TRUE]]
  /\ UNCHANGED <<ms, item, list, deletions>>

Active == {i \in Items : item[i].state = "active"}

ReloadItems(p) ==
  /\ list' = [list EXCEPT ![p] = [k \in 1 .. Cardinality(Active) |->
                LET i == Nth(Active, k) IN [id |-> i, body |-> item[i].body]]]
  /\ UNCHANGED <<ms, item, wish, deletions>>

-----------------------------------------------------------------------------
(* The server.                                                             *)
AdmitItemRequest(r) ==
  /\ wish[r].pc = "sent"
  /\ wish' = [wish EXCEPT ![r].pc = "batch", ![r].now = ms]
  /\ UNCHANGED <<ms, item, list, deletions>>

Committed(r, i) == wish' = [wish EXCEPT ![r].pc = IF i \in Notes THEN "reread" ELSE "done",
                                        ![r].entry.id = i]
Refused(r) == wish' = [wish EXCEPT ![r].pc = "refused"]

CreateItem(r, i) ==
  /\ wish[r].pc = "batch" /\ wish[r].kind = "create"
  /\ item[i].state = "none" /\ \A j \in Items : j < i => item[j].state # "none"
  /\ item' = [item EXCEPT ![i] = [NoItem EXCEPT !.state = "active", !.author = wish[r].by,
                                  !.body = wish[r].entry.body]]
  /\ Committed(r, i)
  /\ UNCHANGED <<ms, list, deletions>>

(* The row is there, is the member's if it is a note, and not deleted.     *)
Changeable(r, i) ==
  /\ i \in Active
  /\ i \in Notes => item[i].author = wish[r].by

UpdateItem(r) ==
  /\ wish[r].pc = "batch" /\ wish[r].kind = "update"
  /\ LET i == wish[r].entry.id
     IN IF Changeable(r, i)
        THEN item' = [item EXCEPT ![i].body = wish[r].entry.body] /\ Committed(r, i)
        ELSE Refused(r) /\ UNCHANGED item
  /\ UNCHANGED <<ms, list, deletions>>

(* Mutant: the guard of the event does not look for an earlier event.      *)
DeletionPublishedAgain(r, i, row) ==
  /\ i \in Items /\ row.state = "deleted" /\ row.deletedAt = wish[r].now
  /\ i \in Notes => row.author = wish[r].by

(* deletedTaskGuard and the guard of deleteNote, asked after the update: a *)
(* row deleted at this millisecond, and no event about it yet.             *)
DeletionPublished(r, i, row) ==
  /\ i \in Items /\ row.state = "deleted" /\ row.deletedAt = wish[r].now
  /\ i \in Notes => row.author = wish[r].by
  /\ deletions[i] = 0

DeleteItem(r) ==
  /\ wish[r].pc = "batch" /\ wish[r].kind = "delete"
  /\ LET i == wish[r].entry.id
         changes == Changeable(r, i)
         row == IF changes
                THEN [item[i] EXCEPT !.state = "deleted", !.deletedAt = wish[r].now]
                ELSE IF i \in Items THEN item[i] ELSE NoItem
     IN /\ item' = IF changes THEN [item EXCEPT ![i] = row] ELSE item
        /\ deletions' = IF DeletionPublished(r, i, row)
                        THEN [deletions EXCEPT ![i] = @ + 1] ELSE deletions
        /\ wish' = [wish EXCEPT ![r].pc = IF changes THEN "done" ELSE "refused"]
  /\ UNCHANGED <<ms, list>>

(* loadActiveNote: the note as it is by now, or an error if it is gone.    *)
RereadNote(r) ==
  /\ wish[r].pc = "reread"
  /\ LET i == wish[r].entry.id
     IN wish' = IF i \in Active
                THEN [wish EXCEPT ![r].pc = "done", ![r].entry.body = item[i].body]
                ELSE [wish EXCEPT ![r].pc = "refused"]
  /\ UNCHANGED <<ms, item, list, deletions>>

RequestOver(r) == wish' = [wish EXCEPT ![r] = [NoRequest EXCEPT !.pc = "over"]]

-----------------------------------------------------------------------------
(* The answer: ...Succeeded ...                                            *)
ItemRequestSucceeded(r) ==
  /\ wish[r].pc = "done" /\ wish[r].open
  /\ LET p == wish[r].by
         entry == wish[r].entry
     IN list' = [list EXCEPT ![p] =
          IF wish[r].kind = "delete" THEN Without(list[p], entry.id)
          ELSE ReplaceByRequestItem(list[p], entry,
                                    IF wish[r].kind = "create" THEN r ELSE NoPerson)]
  /\ RequestOver(r)
  /\ UNCHANGED <<ms, item, deletions>>

(* ... or ...Failed, which takes the row out or puts back what was shown   *)
(* before.  The answer may just not arrive, while the server goes on.      *)
ItemRequestFailed(r) ==
  /\ wish[r].open
  /\ LET p == wish[r].by
     IN list' = [list EXCEPT ![p] =
          CASE wish[r].kind = "create" -> Without(list[p], r)
            [] wish[r].kind = "update" ->
                 ReplaceByRequestItem(list[p], wish[r].previous, NoPerson)
            [] OTHER -> list[p]]
  /\ IF wish[r].pc = "refused" THEN RequestOver(r)
     ELSE wish' = [wish EXCEPT ![r].open = FALSE]
  /\ UNCHANGED <<ms, item, deletions>>

Unheard(r) ==
  /\ ~wish[r].open /\ wish[r].pc \notin {"none", "over"}
  /\ RequestOver(r)
  /\ UNCHANGED <<ms, item, list, deletions>>

NextMs ==
  /\ ms < LastMs
  /\ ms' = ms + 1
  /\ UNCHANGED <<item, list, wish, deletions>>

ItemNext ==
  \/ \E p \in People :
       \/ ReloadItems(p)
       \/ \E r \in ItemRequests :
            \/ \E b \in Bodies : CreateItemOptimistically(p, r, b)
            \/ \E k \in DOMAIN list[p] :
                 StartDelete(p, r, k) \/ \E b \in Bodies : UpdateItemOptimistically(p, r, k, b)
  \/ \E r \in ItemRequests :
       \/ AdmitItemRequest(r)
       \/ \E i \in Items : CreateItem(r, i)
       \/ UpdateItem(r) \/ DeleteItem(r) \/ RereadNote(r)
       \/ ItemRequestSucceeded(r) \/ ItemRequestFailed(r) \/ Unheard(r)
  \/ NextMs

ItemSpec == ItemInit /\ [][ItemNext]_itemVars

-----------------------------------------------------------------------------
(***************************************************************************)
(* Properties.                                                             *)
(***************************************************************************)
(* No list shows an item twice, whether its creation is answered before or *)
(* after a reload has shown it (replaceByRequestItem;                      *)
(* customerCardModel.test.ts, "reconciles optimistic rows with an earlier  *)
(* server event by id").                                                   *)
ItemsAreShownOnce ==
  \A p \in People : \A j, k \in DOMAIN list[p] :
    list[p][j].id = list[p][k].id => j = k

(* A deletion is announced once, also when two requests delete the item in *)
(* the same millisecond (notes.ts, the guard that looks for past events).  *)
DeletionsAreAnnouncedOnce ==
  \A i \in Items : deletions[i] = IF item[i].state = "deleted" THEN 1 ELSE 0
=============================================================================
