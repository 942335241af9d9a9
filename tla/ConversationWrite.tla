-------------------------- MODULE ConversationWrite --------------------------
(***************************************************************************)
(* The header of a conversation in a client changes its status, label or   *)
(* archive mark at once and sends the change with the version it shows     *)
(* (src/hooks/useConversationWrite.ts; the server's side is Inbox).        *)
(*                                                                         *)
(* An instance of the hook has one change under way.  A member who turns   *)
(* to another conversation and back gets a new instance, while the answer  *)
(* to the old one is still applied.  Lists are reloaded meanwhile, and     *)
(* other members write.                                                    *)
(***************************************************************************)
EXTENDS Naturals

CONSTANTS
  Writes,
  Shown,       \* what is shown of a conversation: status, label, archived
  FirstState,
  LastVersion,  \* bound: versions of the conversation
  NoWrite

ASSUME WriteAssumption == FirstState \in Shown /\ LastVersion \in Nat \ {0}

VARIABLES
  serverRow,     \* the row of conversations
  header,        \* what the client shows, and what of it was the server's
  pendingWrite,  \* the write of the present instance
  write          \* the requests

writeVars == <<serverRow, header, pendingWrite, write>>

Projections == [version : 1 .. LastVersion, state : Shown]
ShownHeaders == [version : 1 .. LastVersion, state : Shown, seen : Shown]

FromServer(row) == [version |-> row.version, state |-> row.state, seen |-> row.state]
NotWritten == [pc |-> "none", state |-> FirstState, previous |-> FromServer(
                [version |-> 1, state |-> FirstState]), open |-> FALSE,
               answer |-> [version |-> 1, state |-> FirstState]]

WriteRecords ==
  [pc : {"none", "sent", "won", "lost", "answered", "over"}, state : Shown,
   previous : ShownHeaders, open : BOOLEAN, answer : Projections]

WriteTypeOK ==
  /\ serverRow \in Projections
  /\ header \in ShownHeaders
  /\ pendingWrite \in Writes \union {NoWrite}
  /\ write \in [Writes -> WriteRecords]

WriteInit ==
  /\ serverRow = [version |-> 1, state |-> FirstState]
  /\ header = FromServer(serverRow)
  /\ pendingWrite = NoWrite
  /\ write = [w \in Writes |-> NotWritten]

Mutate(w, state) ==
  /\ pendingWrite = NoWrite /\ write[w].pc = "none"
  /\ state # header.state
  /\ write' = [write EXCEPT ![w] =
                [write[w] EXCEPT !.pc = "sent", !.state = state, !.previous = header,
                                 !.open = TRUE]]
  /\ header' = [header EXCEPT !.state = state]
  /\ pendingWrite' = w
  /\ UNCHANGED serverRow

(* The server's compare-and-swap (PatchConversation of Inbox).             *)
PatchArrives(w) ==
  /\ write[w].pc = "sent"
  /\ IF serverRow.version = write[w].previous.version
     THEN /\ serverRow.version < LastVersion
          /\ serverRow' = [version |-> serverRow.version + 1, state |-> write[w].state]
          /\ write' = [write EXCEPT ![w].pc = "won"]
     ELSE /\ write' = [write EXCEPT ![w].pc = "lost"]
          /\ UNCHANGED serverRow
  /\ UNCHANGED <<header, pendingWrite>>

WriteEnds(w, shown) ==
  /\ header' = shown
  /\ write' = [write EXCEPT ![w] =
                [write[w] EXCEPT !.pc = IF write[w].pc = "answered" THEN "over" ELSE write[w].pc,
                                 !.open = FALSE]]
  /\ pendingWrite' = IF pendingWrite = w THEN NoWrite ELSE pendingWrite

(* The row is read again after either outcome: into the answer, or into    *)
(* the details of the conflict.                                            *)
PatchIsReread(w) ==
  /\ write[w].pc \in {"won", "lost"}
  /\ write' = [write EXCEPT ![w].pc = "answered", ![w].answer = serverRow]
  /\ UNCHANGED <<serverRow, header, pendingWrite>>

(* What comes back is shown, however old it is by now.                     *)
WriteAnswered(w) ==
  /\ write[w].open /\ write[w].pc = "answered"
  /\ WriteEnds(w, FromServer(write[w].answer))
  /\ UNCHANGED serverRow

(* Mutant: what was shown before comes back with the version shown now.    *)
WriteFailsKeepingVersion(w) ==
  /\ write[w].open
  /\ WriteEnds(w, [write[w].previous EXCEPT !.version = header.version])
  /\ UNCHANGED serverRow

(* Any other end puts back what was shown before, while the server may     *)
(* still go on with the request.                                           *)
WriteFails(w) ==
  /\ write[w].open
  /\ WriteEnds(w, write[w].previous)
  /\ UNCHANGED serverRow

(* The header is mounted anew.                                             *)
TurnAwayAndBack ==
  /\ pendingWrite # NoWrite
  /\ pendingWrite' = NoWrite
  /\ UNCHANGED <<serverRow, header, write>>

ReloadShowsRow ==
  /\ header' = FromServer(serverRow)
  /\ UNCHANGED <<serverRow, pendingWrite, write>>

OtherMemberWrites(state) ==
  /\ serverRow.version < LastVersion
  /\ serverRow' = [version |-> serverRow.version + 1, state |-> state]
  /\ UNCHANGED <<header, pendingWrite, write>>

WriteNext ==
  \/ \E w \in Writes :
       \/ \E state \in Shown : Mutate(w, state)
       \/ PatchArrives(w) \/ PatchIsReread(w) \/ WriteAnswered(w) \/ WriteFails(w)
  \/ TurnAwayAndBack \/ ReloadShowsRow
  \/ \E state \in Shown : OtherMemberWrites(state)

WriteSpec == WriteInit /\ [][WriteNext]_writeVars

(* A write that is accepted replaces the state the member was shown, never *)
(* one that came in between: what a failure puts back over a newer state   *)
(* carries its old version with it (useConversationWrite.ts, the catch).   *)
WritesReplaceWhatWasSeen ==
  [][\A w \in Writes :
       write[w].pc = "sent" /\ write'[w].pc = "won"
       => write[w].previous.seen = serverRow.state]_write
=============================================================================
