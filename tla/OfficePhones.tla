---------------------------- MODULE OfficePhones ----------------------------
(***************************************************************************)
(* The business phones of an office: the phone routes of                   *)
(* worker/routes/office.ts and the gateway's administration interface      *)
(* (worker/gateway/admin.ts).                                              *)
(*                                                                         *)
(* A request is admitted with the role its session names; its batch asks   *)
(* for the right again, which may be gone by then (managers; Office models *)
(* how).  Issuing an enrollment code takes the time, reserves an attempt,  *)
(* asks the gateway and records the result, in separate awaits, and looks  *)
(* at the right only when it is admitted.                                  *)
(***************************************************************************)
EXTENDS Naturals, FiniteSets

CONSTANTS
  Phones,        \* rows of office_channels, one for each device
  DefaultPhone,
  Actors,
  PhoneRequests,
  Limit,         \* ENROLLMENT_CODE_LIMIT, 3
  Window,        \* ENROLLMENT_CODE_WINDOW_MS, 5 minutes
  LastTick,      \* bound: ticks explored
  MaxKey,        \* bound: signing keys issued for a phone
  NoActorYet

ASSUME PhoneAssumption ==
  /\ DefaultPhone \in Phones
  /\ NoActorYet \notin Actors
  /\ Limit \in Nat \ {0} /\ Window \in Nat /\ LastTick \in Nat /\ MaxKey \in Nat

VARIABLES
  ticks,     \* the time
  phones,    \* state, and how many signing keys it has had
  managers,  \* actors that have office:manage now
  wanted,    \* each request: its step, its actor, the time it took
  attempts,  \* each request's audit event: when, or Never, and the results
  issued     \* history: requests the gateway issued a code for

phoneVars == <<ticks, phones, managers, wanted, attempts, issued>>

Never == LastTick + 1
NoWish == [pc |-> "none", actor |-> NoActorYet, now |-> 0]
NoAttempt == [at |-> Never, results |-> {}]

PhoneTypeOK ==
  /\ ticks \in 0..LastTick
  /\ phones \in [Phones -> [state : {"none", "active", "inactive"}, key : 0..MaxKey]]
  /\ managers \subseteq Actors
  /\ wanted \in [PhoneRequests ->
                   [pc : {"none", "admitted", "reserving", "reserved", "answered",
                          "threw", "over"},
                    actor : Actors \union {NoActorYet}, now : 0..LastTick]]
  /\ attempts \in [PhoneRequests ->
                     [at : 0..Never, results : SUBSET {"succeeded", "failed"}]]
  /\ issued \subseteq PhoneRequests

PhoneInit ==
  /\ ticks = 0
  /\ phones = [p \in Phones |-> [state |-> IF p = DefaultPhone THEN "active" ELSE "none",
                                 key |-> 0]]
  /\ managers = Actors
  /\ wanted = [r \in PhoneRequests |-> NoWish]
  /\ attempts = [r \in PhoneRequests |-> NoAttempt]
  /\ issued = {}

Goes(r, pc) == wanted' = [wanted EXCEPT ![r].pc = pc]

IsManager(r) == wanted[r].actor \in managers

-----------------------------------------------------------------------------
AdmitPhoneRequest(r, a) ==
  /\ wanted[r] = NoWish
  /\ a \in managers
  /\ wanted' = [wanted EXCEPT ![r].pc = "admitted", ![r].actor = a]
  /\ UNCHANGED <<ticks, phones, managers, attempts, issued>>

(* INSERT ... ON CONFLICT(device_id) DO NOTHING.                           *)
CreateOfficePhone(r, p) ==
  /\ wanted[r].pc = "admitted"
  /\ phones' = IF IsManager(r) /\ phones[p].state = "none"
               THEN [phones EXCEPT ![p].state = "active"]
               ELSE phones
  /\ Goes(r, "over")
  /\ UNCHANGED <<ticks, managers, attempts, issued>>

(* The default phone stays active.                                         *)
UpdateOfficePhoneStatus(r, p, state) ==
  /\ wanted[r].pc = "admitted"
  /\ phones' = IF /\ IsManager(r)
                  /\ phones[p].state # "none"
                  /\ p # DefaultPhone \/ state = "active"
               THEN [phones EXCEPT ![p].state = state]
               ELSE phones
  /\ Goes(r, "over")
  /\ UNCHANGED <<ticks, managers, attempts, issued>>

(* A new key replaces the old one, active or not.                          *)
IssueOfficePhoneSigningKey(r, p) ==
  /\ wanted[r].pc = "admitted"
  /\ phones[p].key < MaxKey
  /\ phones' = IF IsManager(r) /\ phones[p].state # "none"
               THEN [phones EXCEPT ![p].key = @ + 1]
               ELSE phones
  /\ Goes(r, "over")
  /\ UNCHANGED <<ticks, managers, attempts, issued>>

-----------------------------------------------------------------------------
(* Enrollment codes.                                                       *)
IssueOfficePhoneEnrollmentCode(r) ==
  /\ wanted[r].pc = "admitted"
  /\ wanted' = [wanted EXCEPT ![r].pc = "reserving", ![r].now = ticks]
  /\ UNCHANGED <<ticks, phones, managers, attempts, issued>>

(* The requests of r's actor that r finds in its window: all that are not  *)
(* older, also those of a request that took a later time.                  *)
Recent(r) ==
  {q \in PhoneRequests : /\ attempts[q].at # Never
                         /\ wanted[q].actor = wanted[r].actor
                         /\ attempts[q].at + Window >= wanted[r].now}

(* Mutant: only attempts before the request's own time count.             *)
ReserveCountingThePast(r) ==
  /\ wanted[r].pc = "reserving"
  /\ IF Cardinality({q \in Recent(r) : attempts[q].at < wanted[r].now}) < Limit
     THEN /\ attempts' = [attempts EXCEPT ![r].at = wanted[r].now]
          /\ Goes(r, "reserved")
     ELSE /\ Goes(r, "over")
          /\ UNCHANGED attempts
  /\ UNCHANGED <<ticks, phones, managers, issued>>

(* The event is inserted by a statement that counts the events before it.  *)
ReserveEnrollmentCodeAttempt(r) ==
  /\ wanted[r].pc = "reserving"
  /\ IF Cardinality(Recent(r)) < Limit
     THEN /\ attempts' = [attempts EXCEPT ![r].at = wanted[r].now]
          /\ Goes(r, "reserved")
     ELSE /\ Goes(r, "over")
          /\ UNCHANGED attempts
  /\ UNCHANGED <<ticks, phones, managers, issued>>

(* The gateway issues a code; its answer arrives and is well formed, or    *)
(* the call throws.                                                        *)
AskGateway(r) ==
  /\ wanted[r].pc = "reserved"
  /\ \/ issued' = issued \union {r} /\ Goes(r, "answered")
     \/ issued' = issued \union {r} /\ Goes(r, "threw")
     \/ UNCHANGED issued /\ Goes(r, "threw")
  /\ UNCHANGED <<ticks, phones, managers, attempts>>

(* A success that cannot be recorded, or whose recording loses its answer, *)
(* is caught and recorded as a failure.                                    *)
RecordEnrollmentCodeResult(r) ==
  /\ \/ /\ wanted[r].pc = "answered"
        /\ \/ /\ attempts' = [attempts EXCEPT ![r].results = @ \union {"succeeded"}]
              /\ Goes(r, "over") \/ Goes(r, "threw")
           \/ UNCHANGED attempts /\ Goes(r, "threw")
     \/ /\ wanted[r].pc = "threw"
        /\ attempts' = [attempts EXCEPT ![r].results = @ \union {"failed"}]
        /\ Goes(r, "over")
  /\ UNCHANGED <<ticks, phones, managers, issued>>

(* The body is refused, or the worker stops.                              *)
PhoneRequestDies(r) ==
  /\ wanted[r].pc \notin {"none", "over"}
  /\ Goes(r, "over")
  /\ UNCHANGED <<ticks, phones, managers, attempts, issued>>

-----------------------------------------------------------------------------
ManagersChange(a) ==
  /\ managers' = IF a \in managers THEN managers \ {a} ELSE managers \union {a}
  /\ UNCHANGED <<ticks, phones, wanted, attempts, issued>>

TimeGoesOn ==
  /\ ticks < LastTick
  /\ ticks' = ticks + 1
  /\ UNCHANGED <<phones, managers, wanted, attempts, issued>>

PhoneNext ==
  \/ \E r \in PhoneRequests :
       \/ \E a \in Actors : AdmitPhoneRequest(r, a)
       \/ \E p \in Phones :
            \/ CreateOfficePhone(r, p)
            \/ \E state \in {"active", "inactive"} : UpdateOfficePhoneStatus(r, p, state)
            \/ IssueOfficePhoneSigningKey(r, p)
       \/ IssueOfficePhoneEnrollmentCode(r)
       \/ ReserveEnrollmentCodeAttempt(r)
       \/ AskGateway(r)
       \/ RecordEnrollmentCodeResult(r)
       \/ PhoneRequestDies(r)
  \/ \E a \in Actors : ManagersChange(a)
  \/ TimeGoesOn

PhoneSpec == PhoneInit /\ [][PhoneNext]_phoneVars

-----------------------------------------------------------------------------
(***************************************************************************)
(* Properties.                                                             *)
(***************************************************************************)
(* No stretch of five minutes holds more than three codes for one member,  *)
(* though requests reserve in another order than they took the time        *)
(* (reserveEnrollmentCodeAttempt).                                         *)
EnrollmentIsLimited ==
  \A a \in Actors, t \in 0..LastTick :
    Cardinality({r \in issued : /\ wanted[r].actor = a
                                /\ attempts[r].at \in t..(t + Window)}) <= Limit
=============================================================================
