------------------------------- MODULE MCIntake -------------------------------
(* What LGU+ brings: batches of messages (MoWebhook) and files to download *)
(* (Downloads), each on its own: a behaviour is one of the part chosen at  *)
(* the start, and fair to the processes of that part.                      *)
EXTENDS MoWebhook, Downloads

VARIABLE part

IntakeVars == <<moVars, downloadVars, part>>

Mo(A) == part = "mo" /\ A
Files(A) == part = "files" /\ A

(* A batch with a bad message twice, one whose bad message has the key of  *)
(* a good one of the others, and one that is good.                         *)
SampleBatches ==
  {<<[key |-> "k1", ok |-> TRUE, at |-> 2], [key |-> "bad", ok |-> FALSE, at |-> 0],
     [key |-> "bad", ok |-> FALSE, at |-> 1], [key |-> "k2", ok |-> TRUE, at |-> 1]>>,
   <<[key |-> "k2", ok |-> FALSE, at |-> 1]>>,
   <<[key |-> "k2", ok |-> TRUE, at |-> 3]>>}

IntakeInit == part \in {"mo", "files"} /\ MoInit /\ DownloadInit

IntakeNext ==
  \/ part = "mo" /\ MoNext /\ UNCHANGED <<downloadVars, part>>
  \/ part = "files" /\ DownloadNext /\ UNCHANGED <<moVars, part>>

(* MoFairness and DownloadFairness, each for its part.                     *)
IntakeFairness ==
  /\ \A b \in Batches : WF_moVars(Mo(\E d \in Deliveries : DeliverBatch(d, b)))
  /\ \A d \in Deliveries : WF_moVars(Mo(DeliveryStep(d)))
  /\ \A a \in Attachments : /\ WF_downloadVars(Files(LeaseExpires(a)))
                            /\ WF_downloadVars(Files(WindowPasses(a)))
  /\ \A r \in Runs :
       /\ WF_downloadVars(Files(StartRun(r) \/ RunStep(r)))
       /\ SF_downloadVars(Files(ClaimNextAttachment(r)))
       /\ SF_downloadVars(Files(FinalizeFailure(r) /\ attachment' # attachment))

IntakeSpec == IntakeInit /\ [][IntakeNext]_IntakeVars /\ IntakeFairness

(* Every variable of the two modules stays in its type.                    *)
IntakeTypeOK == MoTypeOK /\ DownloadTypeOK

(* BatchesAreAcknowledged where the webhook is what runs.                  *)
MoIsAcknowledged == part = "mo" => BatchesAreAcknowledged

(* EveryDownloadSettles where the downloads are what runs.                 *)
FilesSettle == part = "files" => EveryDownloadSettles
=============================================================================
