------------------------------ MODULE ListPages ------------------------------
(***************************************************************************)
(* The pages of the conversation list: the query of a page                 *)
(* (worker/routes/conversations.ts) and the client that asks for one page  *)
(* after the other (src/hooks/useConversationList.ts, src/state/list.ts).  *)
(*                                                                         *)
(* A page begins after a cursor, the time and the id of the last row of    *)
(* the page before, and conversations move between the pages while they    *)
(* are read.  Three requests may be under way: for the first page, for a   *)
(* further page, and the realtime reload, which brings the first page      *)
(* under whatever request id was current when it began (Realtime models    *)
(* when it begins).                                                        *)
(*                                                                         *)
(* Scope, archive and search narrow the rows as the status does, so one    *)
(* filter stands for all four.  The counts beside the list are left out.   *)
(***************************************************************************)
EXTENDS Naturals, FiniteSets

CONSTANTS
  Chats,        \* ids of conversations, in their order
  ListStatuses,
  AnyStatus,    \* the filter that lets every status through
  PageLimit,    \* CONVERSATION_LIST_DEFAULT_LIMIT, 50
  LastSortAt,   \* bound: times of last messages
  MaxEdits,     \* bound: changes of rows
  MaxListIds    \* bound: request ids of the client

ASSUME ListAssumption ==
  /\ Chats \subseteq Nat /\ IsFiniteSet(Chats) /\ AnyStatus \notin ListStatuses
  /\ PageLimit \in Nat \ {0} /\ LastSortAt \in Nat /\ MaxEdits \in Nat
  /\ MaxListIds \in Nat \ {0}

VARIABLES
  edits,   \* how often a row has changed
  chat,    \* each conversation: the time it is sorted by (0 if it is not
           \* there), its status, and the count of edits after its last change
  pages,   \* ListState: filter, request id, rows, cursor; and, as history,
           \* when the first page was read, and whether each further page
           \* was read after it, and asked for with the cursor of the list
           \* that it was added to
  asked    \* the requests

listVars == <<edits, chat, pages, asked>>

Asked == {"first", "further", "reload"}
ListFilters == ListStatuses \union {AnyStatus}
Cursors == [at : 0 .. LastSortAt + 1, id : Chats \union {0}]
Start == [at |-> LastSortAt + 1, id |-> 0]  \* before every row
End == [at |-> 0, id |-> 0]                 \* nextCursor is null

NoPage == [pc |-> "none", id |-> 0, filter |-> AnyStatus, after |-> Start,
           rows |-> {}, cursor |-> End, read |-> 0]

ListTypeOK ==
  /\ edits \in 0 .. MaxEdits
  /\ chat \in [Chats -> [at : 0 .. LastSortAt, status : ListStatuses, edit : 0 .. MaxEdits]]
  /\ pages \in [filter : ListFilters, id : 0 .. MaxListIds, rows : SUBSET Chats,
                cursor : Cursors, status : {"loading", "loaded", "failed"},
                read : 0 .. MaxEdits, joined : BOOLEAN]
  /\ asked \in [Asked -> [pc : {"none", "sent", "read"}, id : 0 .. MaxListIds,
                          filter : ListFilters, after : Cursors, rows : SUBSET Chats,
                          cursor : Cursors, read : 0 .. MaxEdits]]

Sent(filter, id, after) ==
  [NoPage EXCEPT !.pc = "sent", !.filter = filter, !.id = id, !.after = after]

EmptyList(filter, id) ==
  [filter |-> filter, id |-> id, rows |-> {}, cursor |-> End, status |-> "loading",
   read |-> 0, joined |-> TRUE]

ListInit ==
  /\ edits = 0
  /\ chat \in [Chats -> [at : 0 .. LastSortAt - 1, status : ListStatuses, edit : {0}]]
  /\ pages = EmptyList(AnyStatus, 1)
  /\ asked = [k \in Asked |-> IF k = "first" THEN Sent(AnyStatus, 1, Start) ELSE NoPage]

-----------------------------------------------------------------------------
(* The server.                                                             *)
Listed(filter) ==
  {c \in Chats : chat[c].at > 0 /\ filter \in {AnyStatus, chat[c].status}}

(* Mutant: of rows with the time of the cursor, none comes after it.       *)
ComesAfterByTime(c, cursor) == chat[c].at < cursor.at

(* The condition of the query: the rows after the cursor.                  *)
ComesAfter(c, cursor) ==
  \/ chat[c].at < cursor.at
  \/ chat[c].at = cursor.at /\ c < cursor.id

CursorOf(c) == [at |-> chat[c].at, id |-> c]

(* ORDER BY: the latest first, of one time the greater id.                 *)
SortsBefore(x, y) == x.at > y.at \/ (x.at = y.at /\ x.id > y.id)

(* LIMIT: the first PageLimit rows after the cursor.                       *)
Rest(filter, cursor) == {c \in Listed(filter) : ComesAfter(c, cursor)}

Page(filter, cursor) ==
  LET rest == Rest(filter, cursor)
      earlier(c) == {o \in rest : SortsBefore(CursorOf(o), CursorOf(c))}
  IN {c \in rest : Cardinality(earlier(c)) < PageLimit}

(* nextCursor: the last row of a page that leaves rows for another.        *)
NextCursor(filter, cursor) ==
  LET page == Page(filter, cursor)
      last == CHOOSE c \in page : \A o \in page \ {c} : SortsBefore(CursorOf(o), CursorOf(c))
  IN IF page = Rest(filter, cursor) THEN End ELSE CursorOf(last)

ListConversations(k) ==
  /\ asked[k].pc = "sent"
  /\ asked' = [asked EXCEPT ![k] = [asked[k] EXCEPT
                 !.pc = "read", !.read = edits,
                 !.rows = Page(asked[k].filter, asked[k].after),
                 !.cursor = NextCursor(asked[k].filter, asked[k].after)]]
  /\ UNCHANGED <<edits, chat, pages>>

(* A message makes a conversation the first, or begins it.                 *)
ChatMoves(c, at) ==
  /\ edits < MaxEdits /\ at > chat[c].at
  /\ edits' = edits + 1
  /\ chat' = [chat EXCEPT ![c].at = at, ![c].edit = edits']
  /\ UNCHANGED <<pages, asked>>

ChatStatusChanges(c, status) ==
  /\ edits < MaxEdits /\ chat[c].at > 0 /\ chat[c].status # status
  /\ edits' = edits + 1
  /\ chat' = [chat EXCEPT ![c].status = status, ![c].edit = edits']
  /\ UNCHANGED <<pages, asked>>

-----------------------------------------------------------------------------
(* The client.                                                             *)
(* Another filter, or a retry: the requests before it are aborted.         *)
LoadFirstPage(filter) ==
  /\ pages.id < MaxListIds
  /\ filter # pages.filter \/ pages.status = "failed"
  /\ pages' = EmptyList(filter, pages.id + 1)
  /\ asked' = [asked EXCEPT !["first"] = Sent(filter, pages.id + 1, Start),
                            !["further"] = NoPage]
  /\ UNCHANGED <<edits, chat>>

LoadMore ==
  /\ pages.id < MaxListIds
  /\ pages.status = "loaded" /\ pages.cursor # End
  /\ asked["further"].pc = "none"
  /\ pages' = [pages EXCEPT !.id = @ + 1]
  /\ asked' = [asked EXCEPT !["further"] = Sent(pages.filter, pages.id + 1, pages.cursor)]
  /\ UNCHANGED <<edits, chat>>

RealtimeReload ==
  /\ asked["reload"].pc = "none"
  /\ asked' = [asked EXCEPT !["reload"] = Sent(pages.filter, pages.id, Start)]
  /\ UNCHANGED <<edits, chat, pages>>

(* An answer under a request id that is not the current one is dropped.    *)
ListLoadSucceeded(k) ==
  LET a == asked[k]
  IN /\ a.pc = "read"
     /\ pages' = IF a.id # pages.id THEN pages
                 ELSE IF k = "further"
                 THEN [pages EXCEPT !.rows = @ \union a.rows, !.cursor = a.cursor,
                                    !.status = "loaded",
                                    !.joined = /\ pages.joined
                                               /\ pages.cursor = a.after
                                               /\ a.read >= pages.read]
                 ELSE [pages EXCEPT !.rows = a.rows, !.cursor = a.cursor,
                                    !.status = "loaded", !.read = a.read, !.joined = TRUE]
     /\ asked' = [asked EXCEPT ![k] = NoPage]
     /\ UNCHANGED <<edits, chat>>

(* A reload that fails is the subscription's to repeat.                    *)
ListLoadFailed(k) ==
  /\ asked[k].pc # "none"
  /\ pages' = IF k = "first" /\ asked[k].id = pages.id
              THEN [pages EXCEPT !.status = "failed"] ELSE pages
  /\ asked' = [asked EXCEPT ![k] = NoPage]
  /\ UNCHANGED <<edits, chat>>

ListNext ==
  \/ \E k \in Asked : ListConversations(k) \/ ListLoadSucceeded(k) \/ ListLoadFailed(k)
  \/ \E filter \in ListFilters : LoadFirstPage(filter)
  \/ LoadMore \/ RealtimeReload
  \/ \E c \in Chats : \/ \E at \in 1 .. LastSortAt : ChatMoves(c, at)
                      \/ \E status \in ListStatuses : ChatStatusChanges(c, status)

ListSpec == ListInit /\ [][ListNext]_listVars

-----------------------------------------------------------------------------
(* No page skips a conversation: one that has not changed since the first  *)
(* page was read is in the list as soon as the cursor has passed it, also  *)
(* if others have moved between the pages meanwhile, with the same time as *)
(* the last row of a page, or after the filter has changed (the order and  *)
(* the cursor of buildConversationPageQuery, conversationListLoadSucceeded *)
(* and its request id).  The one exception is a realtime reload that comes *)
(* between a request for a further page and its answer: the page is added  *)
(* to a list that it does not continue.                                    *)
PagesSkipNothing ==
  pages.status = "loaded" /\ pages.joined =>
    \A c \in Listed(pages.filter) :
      chat[c].edit <= pages.read /\ ~SortsBefore(pages.cursor, CursorOf(c))
      => c \in pages.rows
=============================================================================
