------------------------------- MODULE Thread -------------------------------
(***************************************************************************)
(* The thread of the open conversation in a client: src/state/thread.ts,   *)
(* the loads and sends of src/components/ChatPane.tsx, the pages of        *)
(* worker/routes/conversation-detail.ts.                                   *)
(*                                                                         *)
(* The newest page is read when the thread opens, on demand and by every   *)
(* realtime reload, and replaces what is shown; pages of older messages    *)
(* are put before it.  No load carries an id, so that answers may arrive   *)
(* in another order than they were read.  A message sent is shown at once, *)
(* under its client key, and again under that key when it is retried.      *)
(* Messages come in the order of their times here; one that comes late,    *)
(* with an older time, is Inbox's subject.                                 *)
(***************************************************************************)
EXTENDS SequencesExt, Arrays

CONSTANTS
  ClientKeys,
  PageSize,    \* MESSAGE_PAGE_SIZE
  MaxThread,   \* bound: messages of the conversation
  MaxReads,    \* bound: loads of the newest page under way
  NoKey

ASSUME ThreadAssumption ==
  /\ PageSize \in Nat \ {0} /\ MaxThread \in Nat /\ MaxReads \in Nat
  /\ NoKey \notin ClientKeys /\ ClientKeys \intersect Nat = {}

VARIABLES
  stored,  \* messages in the order of occurred_at: the key each was sent under
  shown,   \* the bubbles
  cursor,  \* nextCursor: the message older ones are asked before, 0 for null
  newest,  \* loads of the newest page: the number of messages when read
  older,   \* the load of an older page: the cursor it went with, or 0
  send     \* the request of each client key

threadVars == <<stored, shown, cursor, newest, older, send>>

Bubbles == [id : (1 .. MaxThread) \union ClientKeys, key : ClientKeys \union {NoKey},
            state : {"none", "sending", "failed"}]

ThreadTypeOK ==
  /\ stored \in Seq(ClientKeys \union {NoKey}) /\ Len(stored) <= MaxThread
  /\ shown \in Seq(Bubbles)
  /\ cursor \in 0 .. MaxThread
  /\ newest \in Seq(0 .. MaxThread) /\ Len(newest) <= MaxReads
  /\ older \in 0 .. MaxThread
  /\ send \in [ClientKeys -> {"none", "asked", "kept", "unheard", "over"}]

ThreadInit ==
  /\ stored = <<>> /\ shown = <<>>
  /\ cursor = 0
  /\ newest = <<>> /\ older = 0
  /\ send = [k \in ClientKeys |-> "none"]

Row(m) == [id |-> m, key |-> NoKey, state |-> "none"]
Rows(first, last) == [n \in 1 .. (last - first + 1) |-> Row(first + n - 1)]

(* Mutant: the page is one row too long.                                  *)
OldestOffByOne(last) == IF last >= PageSize THEN last - PageSize ELSE 1

(* The first row of the page that ends with this one.                      *)
Oldest(last) == IF last > PageSize THEN last - PageSize + 1 ELSE 1

(* By the client key first, then by the id.                                *)
MatchingIndex(bubbles, b) ==
  LET byKey == SelectInSeq(bubbles, LAMBDA c : b.key # NoKey /\ c.key = b.key)
  IN IF byKey # 0 THEN byKey ELSE SelectInSeq(bubbles, LAMBDA c : c.id = b.id)

(* What is shown already is replaced where it is, the rest is added.       *)
MergeThreadMessages(current, incoming, position) ==
  LET Incoming(j) == SelectInSeq(incoming, LAMBDA b : MatchingIndex(current, b) = j)
      merged == [j \in DOMAIN current |->
                   IF Incoming(j) = 0 THEN current[j] ELSE incoming[Incoming(j)]]
      additions == Filtered(incoming,
                     {i \in DOMAIN incoming : MatchingIndex(current, incoming[i]) = 0})
  IN IF position = "prepend" THEN additions \o merged ELSE merged \o additions

-----------------------------------------------------------------------------
MessageArrives ==
  /\ Len(stored) < MaxThread
  /\ stored' = Append(stored, NoKey)
  /\ UNCHANGED <<shown, cursor, newest, older, send>>

(* getMessages without a cursor.                                           *)
ReadNewest ==
  /\ Len(newest) < MaxReads
  /\ newest' = Append(newest, Len(stored))
  /\ UNCHANGED <<stored, shown, cursor, older, send>>

LoadNewestSucceeded(j) ==
  /\ LET last == newest[j]
     IN /\ shown' = Rows(Oldest(last), last)
        /\ cursor' = IF Oldest(last) > 1 THEN Oldest(last) ELSE 0
  /\ newest' = RemoveAt(newest, j)
  /\ UNCHANGED <<stored, older, send>>

LoadNewestFailed(j) ==
  /\ newest' = RemoveAt(newest, j)
  /\ UNCHANGED <<stored, shown, cursor, older, send>>

(* One page of older messages at a time; rows before the cursor do not     *)
(* change, whenever they are read.                                         *)
LoadOlder ==
  /\ older = 0 /\ cursor # 0
  /\ older' = cursor
  /\ UNCHANGED <<stored, shown, cursor, newest, send>>

LoadOlderSucceeded ==
  /\ older # 0
  /\ LET first == Oldest(older - 1)
     IN /\ shown' = MergeThreadMessages(shown, Rows(first, older - 1), "prepend")
        /\ cursor' = IF first > 1 THEN first ELSE 0
  /\ older' = 0
  /\ UNCHANGED <<stored, newest, send>>

LoadOlderFailed ==
  /\ older # 0
  /\ older' = 0
  /\ UNCHANGED <<stored, shown, cursor, newest, send>>

-----------------------------------------------------------------------------
SendStarted(k) ==
  /\ send[k] = "none"
  /\ shown' = MergeThreadMessages(shown, <<[id |-> k, key |-> k, state |-> "sending"]>>,
                                  "append")
  /\ send' = [send EXCEPT ![k] = "asked"]
  /\ UNCHANGED <<stored, cursor, newest, older>>

MessageOf(k) == SelectInSeq(stored, LAMBDA key : key = k)

(* The message is kept under the client key, once (Delivery), perhaps      *)
(* after the client has given up.                                          *)
SendIsKept(k) ==
  /\ send[k] \in {"asked", "unheard"}
  /\ \/ MessageOf(k) # 0 /\ UNCHANGED stored
     \/ /\ MessageOf(k) = 0 /\ Len(stored) < MaxThread
        /\ stored' = Append(stored, k)
  /\ send' = [send EXCEPT ![k] = IF send[k] = "asked" THEN "kept" ELSE "over"]
  /\ UNCHANGED <<shown, cursor, newest, older>>

SendSucceeded(k) ==
  /\ send[k] = "kept"
  /\ shown' = MergeThreadMessages(shown,
                <<[id |-> MessageOf(k), key |-> k, state |-> "none"]>>, "append")
  /\ send' = [send EXCEPT ![k] = "over"]
  /\ UNCHANGED <<stored, cursor, newest, older>>

(* The request failed, or its answer was lost.                             *)
SendFailed(k) ==
  /\ send[k] \in {"asked", "kept"}
  /\ shown' = [j \in DOMAIN shown |->
                 IF shown[j].key = k THEN [shown[j] EXCEPT !.state = "failed"] ELSE shown[j]]
  /\ send' = [send EXCEPT ![k] = IF send[k] = "asked" THEN "unheard" ELSE "over"]
  /\ UNCHANGED <<stored, cursor, newest, older>>

(* The bubble that failed offers to send again, under the same key.        *)
RetryStarted(k) ==
  /\ \E j \in DOMAIN shown : shown[j].key = k /\ shown[j].state = "failed"
  /\ shown' = [j \in DOMAIN shown |->
                 IF shown[j].key = k THEN [shown[j] EXCEPT !.state = "sending"] ELSE shown[j]]
  /\ send' = [send EXCEPT ![k] = "asked"]
  /\ UNCHANGED <<stored, cursor, newest, older>>

ThreadNext ==
  \/ MessageArrives \/ ReadNewest \/ LoadOlder \/ LoadOlderSucceeded \/ LoadOlderFailed
  \/ \E j \in DOMAIN newest : LoadNewestSucceeded(j) \/ LoadNewestFailed(j)
  \/ \E k \in ClientKeys :
       SendStarted(k) \/ SendIsKept(k) \/ SendSucceeded(k) \/ SendFailed(k) \/ RetryStarted(k)

ThreadSpec == ThreadInit /\ [][ThreadNext]_threadVars

-----------------------------------------------------------------------------
(***************************************************************************)
(* Properties.                                                             *)
(***************************************************************************)
(* The message a bubble stands for, 0 while none is kept.                  *)
BubbleMessage(b) == IF b.id \in ClientKeys THEN MessageOf(b.id) ELSE b.id

(* No message has two bubbles, neither two rows nor a row beside the       *)
(* bubble it was sent from, whatever loads, sends and retries crossed      *)
(* (thread.test.ts, "keeps one bubble when the same clientKey is retried", *)
(* "prepends ascending older pages without duplicate ids").                *)
MessagesAreShownOnce ==
  \A i, j \in DOMAIN shown :
    i # j => /\ shown[i].id # shown[j].id
             /\ BubbleMessage(shown[i]) # BubbleMessage(shown[j])
                  \/ BubbleMessage(shown[i]) = 0
=============================================================================
