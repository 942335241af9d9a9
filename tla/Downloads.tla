----------------------------- MODULE Downloads ------------------------------
(***************************************************************************)
(* Attachments of customers' messages are downloaded from LGU+ by runs of  *)
(* runAttachmentDownloads (worker/scheduled.ts), which the cron and every  *)
(* webhook delivery with attachments start and which may overlap.  A run   *)
(* takes the oldest pending row that nobody holds, by a lease of ten       *)
(* minutes; looks for an object an earlier run has left; else fetches and  *)
(* puts it; and settles the row, together with the event that announces    *)
(* it, if it still holds the lease.  Each call is a step, and any may      *)
(* throw: the row is left to the lease.                                    *)
(*                                                                         *)
(* The rows are those of messages that the webhook of LGU+ stored, the     *)
(* ones that can have a URL (those of the gateway are in MmsContent and    *)
(* never have one).  LGU+ may leave the URL out, and a row without one is  *)
(* not taken; the message delivered again gives, changes or takes the URL  *)
(* of a row that is pending (storeInboundMessage).                         *)
(*                                                                         *)
(* A lease is identified by its holder here, by its end in the code; a run *)
(* that has gone on to another row never comes back to one it gave up      *)
(* before the lease of that has run out.                                   *)
(***************************************************************************)
EXTENDS Naturals, FiniteSets

CONSTANTS
  Attachments,  \* rows, 1 is the oldest
  Sized,        \* those whose size LGU+ announced
  BadUrls,      \* bound: those that never have a URL of LGU+'s
  Redelivered,  \* bound: those that may lack a URL, or get another one
  Runs,         \* runs that may be under way together
  MaxPerRun,    \* MAX_ATTACHMENTS_PER_RUN, 100
  Nobody

ASSUME DownloadAssumption ==
  /\ Attachments \subseteq Nat \ {0} /\ IsFiniteSet(Attachments)
  /\ Sized \subseteq Attachments /\ BadUrls \subseteq Attachments
  /\ Redelivered \subseteq Attachments
  /\ MaxPerRun \in Nat \ {0}
  /\ Nobody \notin Runs

VARIABLES
  attachment,  \* rows of message_attachments
  located,     \* those whose content_url is not null
  object,      \* R2: "none", "whole", or "wrong": not of the size announced
  aged,        \* rows older than the 24 hours LGU+ keeps a file
  run,         \* local state of each run
  overrun,     \* history: rows whose lease ran out on a live run
  announced    \* history: events published about each row

downloadVars == <<attachment, located, object, aged, run, overrun, announced>>

NoRun == [pc |-> "idle", row |-> 0, left |-> 0]

Rows == [status : {"pending", "completed", "failed"}, lease : Runs \union {Nobody}]
RunStates ==
  [pc : {"idle", "claim", "head", "delete", "fetch", "wrong", "whole", "discard", "succeed",
         "fail"},
   row : Attachments \union {0}, left : 0 .. MaxPerRun]

DownloadTypeOK ==
  /\ attachment \in [Attachments -> Rows]
  /\ located \subseteq Attachments
  /\ object \in [Attachments -> {"none", "whole", "wrong"}]
  /\ aged \subseteq Attachments
  /\ run \in [Runs -> RunStates]
  /\ overrun \subseteq Attachments
  /\ announced \in [Attachments -> Nat]

DownloadInit ==
  /\ attachment = [a \in Attachments |-> [status |-> "pending", lease |-> Nobody]]
  /\ \E r \in SUBSET Redelivered : located = (Attachments \ Redelivered) \union r
  /\ object = [a \in Attachments |-> "none"]
  /\ aged = {}
  /\ run = [r \in Runs |-> NoRun]
  /\ overrun = {}
  /\ announced = [a \in Attachments |-> 0]

GoTo(r, pc) ==
  run' = [run EXCEPT ![r].pc = pc, ![r].row = IF pc = "claim" THEN 0 ELSE run[r].row]

-----------------------------------------------------------------------------
(* The cron or a webhook starts a run.                                     *)
StartRun(r) ==
  /\ run[r].pc = "idle"
  /\ run' = [run EXCEPT ![r] = [pc |-> "claim", row |-> 0, left |-> MaxPerRun]]
  /\ UNCHANGED <<attachment, located, object, aged, overrun, announced>>

(* The webhook stores the message again: the row takes its URL, or loses   *)
(* the one it had, whatever its age and whoever holds it.                  *)
RedeliverUrl(a) ==
  /\ a \in Redelivered
  /\ attachment[a].status = "pending"
  /\ \/ a \notin located /\ located' = located \union {a}
     \/ a \in located /\ located' = located \ {a}
  /\ UNCHANGED <<attachment, object, aged, run, overrun, announced>>

Claimable ==
  {a \in located : attachment[a].status = "pending" /\ attachment[a].lease = Nobody}

(* Mutant: a run goes on for as long as there are rows.                    *)
NoRowLeft(r) == Claimable = {}

RunIsDone(r) == Claimable = {} \/ run[r].left = 0

(* Mutant: the end of the recovery window is not looked at.                *)
ClaimWhateverItsAge(r) ==
  /\ run[r].pc = "claim"
  /\ \/ /\ RunIsDone(r)
        /\ run' = [run EXCEPT ![r] = NoRun]
        /\ UNCHANGED attachment
     \/ \E a \in Claimable :
          /\ ~RunIsDone(r) /\ \A b \in Claimable : a <= b
          /\ attachment' = [attachment EXCEPT ![a].lease = r]
          /\ run' = [run EXCEPT ![r] = [pc |-> "head", row |-> a,
                                        left |-> run[r].left - 1]]
  /\ UNCHANGED <<located, object, aged, overrun, announced>>

(* The oldest claimable row is taken; without one, or at the limit, the    *)
(* run ends.  A row past the recovery window is given up at once.          *)
ClaimNextAttachment(r) ==
  /\ run[r].pc = "claim"
  /\ \/ /\ RunIsDone(r)
        /\ run' = [run EXCEPT ![r] = NoRun]
        /\ UNCHANGED attachment
     \/ \E a \in Claimable :
          /\ ~RunIsDone(r) /\ \A b \in Claimable : a <= b
          /\ attachment' = [attachment EXCEPT ![a].lease = r]
          /\ run' = [run EXCEPT ![r] = [pc |-> IF a \in aged THEN "fail" ELSE "head",
                                        row |-> a, left |-> run[r].left - 1]]
  /\ UNCHANGED <<located, object, aged, overrun, announced>>

(* The URL is looked at once for each claim, as it was when the row was    *)
(* taken: it may be another one each time, and one that is not LGU+'s.     *)
Validated(a) == IF a \in BadUrls THEN {"fail"} ELSE {"fetch", "fail"}

(* R2 may hold an object of an earlier run that did not get to settle.     *)
FindObject(r) ==
  /\ run[r].pc = "head"
  /\ LET a == run[r].row
     IN \E next \in Validated(a) :
          GoTo(r, CASE object[a] = "none" -> next
                    [] object[a] = "wrong" /\ a \in Sized -> "delete"
                    [] OTHER -> "succeed")
  /\ UNCHANGED <<attachment, located, object, aged, overrun, announced>>

(* Mutant: after the object found was removed the row is settled with it.  *)
DeleteObjectAndSucceed(r) ==
  /\ run[r].pc \in {"delete", "discard"}
  /\ object' = [object EXCEPT ![run[r].row] = "none"]
  /\ GoTo(r, IF run[r].pc = "discard" THEN "claim" ELSE "succeed")
  /\ UNCHANGED <<attachment, located, aged, overrun, announced>>

(* An object of the wrong size is removed: the one found, or the one put.  *)
DeleteObject(r) ==
  /\ run[r].pc \in {"delete", "discard"}
  /\ object' = [object EXCEPT ![run[r].row] = "none"]
  /\ \E next \in Validated(run[r].row) :
       GoTo(r, IF run[r].pc = "discard" THEN "claim" ELSE next)
  /\ UNCHANGED <<attachment, located, aged, overrun, announced>>

(* LGU+ has the file, answers with another one, says that it is gone for   *)
(* good, or fails to answer, which leaves the row to its lease.            *)
FetchAttachment(r) ==
  /\ run[r].pc = "fetch"
  /\ \E next \in {"whole", "wrong", "fail", "claim"} : GoTo(r, next)
  /\ UNCHANGED <<attachment, located, object, aged, overrun, announced>>

PutObject(r) ==
  /\ run[r].pc \in {"whole", "wrong"}
  /\ object' = [object EXCEPT ![run[r].row] = run[r].pc]
  /\ GoTo(r, IF run[r].pc = "wrong" /\ run[r].row \in Sized THEN "discard" ELSE "succeed")
  /\ UNCHANGED <<attachment, located, aged, overrun, announced>>

Settled(status) == [status |-> status, lease |-> Nobody]
Holds(r, a) == attachment[a].status = "pending" /\ attachment[a].lease = r

(* Mutant: the event is published whether or not the row is settled.       *)
SettlePublishingAlways(r, pc, status) ==
  /\ run[r].pc = pc
  /\ LET a == run[r].row
     IN /\ announced' = [announced EXCEPT ![a] = @ + 1]
        /\ attachment' = IF Holds(r, a)
                         THEN [attachment EXCEPT ![a] = Settled(status)]
                         ELSE attachment
  /\ GoTo(r, "claim")
  /\ UNCHANGED <<located, object, aged, overrun>>

(* The row and its event, in one batch, if the run holds the lease still.  *)
Settle(r, pc, status) ==
  /\ run[r].pc = pc
  /\ LET a == run[r].row
     IN IF Holds(r, a)
        THEN /\ attachment' = [attachment EXCEPT ![a] = Settled(status)]
             /\ announced' = [announced EXCEPT ![a] = @ + 1]
        ELSE UNCHANGED <<attachment, announced>>
  /\ GoTo(r, "claim")
  /\ UNCHANGED <<located, object, aged, overrun>>

FinalizeSuccess(r) == Settle(r, "succeed", "completed")
FinalizeFailure(r) == Settle(r, "fail", "failed")

(* A call of the run throws: the row is left to its lease.                 *)
DownloadThrows(r) ==
  /\ run[r].pc \notin {"idle", "claim"}
  /\ GoTo(r, "claim")
  /\ UNCHANGED <<attachment, located, object, aged, overrun, announced>>

RunDies(r) ==
  /\ run' = [run EXCEPT ![r] = NoRun]
  /\ UNCHANGED <<attachment, located, object, aged, overrun, announced>>

(* Ten minutes pass, or a row becomes older than 24 hours.                 *)
LeaseExpires(a) ==
  /\ attachment[a].lease # Nobody
  /\ attachment' = [attachment EXCEPT ![a].lease = Nobody]
  /\ overrun' = IF \E r \in Runs : run[r].row = a
                THEN overrun \union {a} ELSE overrun
  /\ UNCHANGED <<located, object, aged, run, announced>>

WindowPasses(a) ==
  /\ a \notin aged
  /\ aged' = aged \union {a}
  /\ UNCHANGED <<attachment, located, object, run, overrun, announced>>

RunStep(r) ==
  \/ ClaimNextAttachment(r) \/ FindObject(r) \/ DeleteObject(r) \/ FetchAttachment(r)
  \/ PutObject(r) \/ FinalizeSuccess(r) \/ FinalizeFailure(r)

DownloadNext ==
  \/ \E r \in Runs : StartRun(r) \/ RunStep(r) \/ DownloadThrows(r) \/ RunDies(r)
  \/ \E a \in Attachments : RedeliverUrl(a) \/ LeaseExpires(a) \/ WindowPasses(a)

(* The cron keeps starting runs and time passes; neither every claim nor   *)
(* every settlement of an expired row fails.                               *)
DownloadFairness ==
  /\ \A a \in Attachments : /\ WF_downloadVars(LeaseExpires(a))
                            /\ WF_downloadVars(WindowPasses(a))
  /\ \A r \in Runs : /\ WF_downloadVars(StartRun(r) \/ RunStep(r))
                     /\ SF_downloadVars(ClaimNextAttachment(r))
                     /\ SF_downloadVars(FinalizeFailure(r) /\ attachment' # attachment)

DownloadSpec == DownloadInit /\ [][DownloadNext]_downloadVars /\ DownloadFairness

-----------------------------------------------------------------------------
(* A member can open what a row shows as completed: the object is there,   *)
(* whichever runs crossed.  Only for a row whose size is known can a run   *)
(* that outlived its lease take the object away again, when its own        *)
(* download was of another size.                                           *)
ServedObjectsExist ==
  \A a \in Attachments :
    attachment[a].status = "completed" /\ ~(a \in Sized /\ a \in overrun)
    => object[a] # "none"

(* A row is settled once, and announced then and only then: a run that     *)
(* lost its lease neither settles nor announces.                           *)
SettledOnceAndAnnounced ==
  \A a \in Attachments :
    announced[a] = IF attachment[a].status = "pending" THEN 0 ELSE 1

(* No attachment that keeps a URL is left pending, however often it was    *)
(* without one before: if nothing else, the end of the recovery window     *)
(* settles it.  Nothing settles one that is never given a URL.             *)
EveryDownloadSettles ==
  \A a \in Attachments : <>[](a \in located) => <>(attachment[a].status # "pending")
=============================================================================
