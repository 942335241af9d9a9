----------------------------- MODULE MCOutbound -----------------------------
(***************************************************************************)
(* Two small instances of Delivery in one run; a behaviour is one of the   *)
(* instance chosen at the start.  In "race" two requests, two webhooks and *)
(* the cron meet at one message without files, through any channel.  In    *)
(* "uploads" two messages that name the same upload go to LGU+, with one   *)
(* webhook and under the fairness of FairSpec.                             *)
(***************************************************************************)
EXTENDS Delivery

CONSTANTS k1, k2, k3, f1, r1, r2, w1, w2

VARIABLE part

OutboundVars == <<vars, part>>

(* k2 and k3 were composed with the same staged upload.                    *)
SampleFiles == [k \in Keys |-> IF k = k1 THEN {} ELSE Files]

Uploads(A) == part = "uploads" /\ A

OutboundInit ==
  /\ part \in {"race", "uploads"} /\ Init
  /\ part = "uploads" => channel = "lgu"

(* Requests and webhooks are alike, so that the first to come may be named *)
(* r1 and w1.                                                              *)
NamedInOrder ==
  /\ request'[r1].key = None => request'[r2].key = None
  /\ hook[w1] = IdleHook => hook'[w2] \in {hook[w2], IdleHook}

OutboundNext ==
  /\ Next /\ NamedInOrder /\ UNCHANGED part
  /\ \A r \in Requests :
       request'[r].key \in {None} \union (IF part = "race" THEN {k1} ELSE {k2, k3})
  /\ part = "uploads" => hook'[w2] = IdleHook

(* Fairness of Delivery for "uploads", which has one webhook.              *)
OutboundFairness ==
  /\ \A r \in Requests : WF_vars(Uploads(RequestStep(r)))
  /\ \A r \in Requests : WF_vars(Uploads(request[r].route = "lgu" /\ ProviderAdvances(r)))
  /\ \A k \in Keys : WF_vars(Uploads(MessageAges(k)))
  /\ WF_vars(Uploads(ReadPending))
  /\ SF_vars(Uploads(QueryLguDeliveryReports))
  /\ SF_vars(Uploads(TakeReply)) /\ SF_vars(Uploads(ApplyReply))
  /\ \A r \in Requests : SF_vars(Uploads(\E s \in Terminal : ReceiveReport(w1, r, s)))
  /\ SF_vars(Uploads(ApplyHook(w1)))

OutboundSpec == OutboundInit /\ [][OutboundNext]_OutboundVars /\ OutboundFairness

(* LguMessagesSettle where requests through LGU+ are what runs.            *)
UploadsSettle == part = "uploads" => LguMessagesSettle
=============================================================================
