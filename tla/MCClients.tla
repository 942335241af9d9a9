------------------------------ MODULE MCClients ------------------------------
(* What a client shows while its requests are under way, each part on its  *)
(* own: the card of a customer (CustomerCard), its tasks and notes         *)
(* (CardItems), the thread (Thread), the header of a conversation          *)
(* (ConversationWrite) and the pages of the list (ListPages).  A behaviour *)
(* is one of the part chosen at the start.                                 *)
EXTENDS MCCard, CardItems, Thread, ConversationWrite, ListPages

CONSTANTS save1, save2

VARIABLE part

ClientVars == <<cardVars, itemVars, threadVars, writeVars, listVars, part>>

ClientInit ==
  /\ part \in {"card", "items", "thread", "write", "pages"}
  /\ CardInit /\ ItemInit /\ ThreadInit /\ WriteInit /\ ListInit
  /\ part # "pages" =>
       \A c \in Chats : chat[c] = [at |-> 0, edit |-> 0,
                                  status |-> CHOOSE s \in ListStatuses : TRUE]

ClientNext ==
  \/ part = "card" /\ CardNext
     /\ UNCHANGED <<itemVars, threadVars, writeVars, listVars, part>>
  \/ part = "items" /\ ItemNext
     /\ UNCHANGED <<cardVars, threadVars, writeVars, listVars, part>>
  \/ part = "thread" /\ ThreadNext
     /\ UNCHANGED <<cardVars, itemVars, writeVars, listVars, part>>
  \/ part = "write" /\ WriteNext
     /\ UNCHANGED <<cardVars, itemVars, threadVars, listVars, part>>
  \/ part = "pages" /\ ListNext
     /\ UNCHANGED <<cardVars, itemVars, threadVars, writeVars, part>>

ClientSpec == ClientInit /\ [][ClientNext]_ClientVars

(* Every variable of the five modules stays in its type.                   *)
ClientTypeOK ==
  CardTypeOK /\ ItemTypeOK /\ ThreadTypeOK /\ WriteTypeOK /\ ListTypeOK

(* ItemsAreShownOnce of the tasks and notes, MessagesAreShownOnce of the   *)
(* messages: whatever order answers, reloads and failures come in, what is *)
(* shown before it is stored is not shown beside what was stored.          *)
NothingIsShownTwice == ItemsAreShownOnce /\ MessagesAreShownOnce

ClientSymmetry == Permutations({save1, save2})
=============================================================================
