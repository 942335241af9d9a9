----------------------------- MODULE TokenLease -----------------------------
(***************************************************************************)
(* The access token of LGU+ (worker/lgu/token.ts): one row of lgu_tokens   *)
(* that every isolate reads, a cache in each isolate, and a lease in the   *)
(* row so that only one isolate authenticates at a time.                   *)
(*                                                                         *)
(* A load takes the time once, before it reads the row, and uses it for    *)
(* the read, the lease and the take-over; each await is a step.  An        *)
(* authentication may last longer than its lease, fail, or lose its        *)
(* answer; an isolate may be discarded at any time.  Callers that ask      *)
(* while a load runs wait for its promise, so the load stands for them.    *)
(*                                                                         *)
(* A token is named by the time LGU+ issued it.  LGU+ accepts it for       *)
(* Usable + Margin ticks; the code counts Usable ticks from the arrival    *)
(* of the answer.                                                          *)
(***************************************************************************)
EXTENDS Naturals

CONSTANTS
  Isolates,    \* isolates of the worker
  Lease,       \* LEASE_DURATION_MS, 30 seconds
  Usable,      \* TOKEN_USABLE_LIFETIME_MS, 55 minutes
  Margin,      \* TOKEN_EXPIRY_MARGIN_MS, 5 minutes
  Latency,     \* assumed: a read, or an answer with its save, is no slower
  MaxClock,    \* bound: ticks explored
  NoToken

ASSUME TokenAssumption ==
  /\ Lease \in Nat \ {0} /\ Usable \in Nat \ {0} /\ Margin \in Nat
  /\ Latency \in Nat /\ MaxClock \in Nat
  /\ 2 * Latency <= Margin
  /\ NoToken \notin Nat

VARIABLES
  clock,     \* the time all isolates agree on
  tokenRow,  \* the row of lgu_tokens
  cached,    \* each isolate's cache
  load,      \* each isolate's pending load
  handed     \* history: the token a caller gets in this step

tokenVars == <<clock, tokenRow, cached, load, handed>>

Tokens == Nat \union {NoToken}
Records == [token : Tokens, issued : Nat, expires : Nat]
NoRecord == [token |-> NoToken, issued |-> 0, expires |-> 0]

(* "asked": the row is being read.  "stale": it held nothing usable.       *)
(* "authenticating": the lease is taken, LGU+ has not issued a token.      *)
(* "issued": it has.  "answered": the answer arrived, the save is sent.    *)
(* "failed": the lease is being released.                                  *)
LoadSteps == {"idle", "asked", "stale", "authenticating", "issued", "answered", "failed"}
Loads == [pc : LoadSteps,
          now : Nat,       \* currentTime
          token : Tokens,  \* issued to this load
          issued : Nat]    \* when the answer arrived
NoLoad == [pc |-> "idle", now |-> 0, token |-> NoToken, issued |-> 0]

TokenTypeOK ==
  /\ clock \in Nat
  /\ tokenRow \in [record : Records, lease : Nat]
  /\ cached \in [Isolates -> Records]
  /\ load \in [Isolates -> Loads]
  /\ handed \in Tokens

TokenInit ==
  /\ clock = 0
  /\ tokenRow = [record |-> NoRecord, lease |-> 0]
  /\ cached = [i \in Isolates |-> NoRecord]
  /\ load = [i \in Isolates |-> NoLoad]
  /\ handed = NoToken

IsUsable(record, now) == record.token # NoToken /\ record.expires > now

LeaseOf(i) == load[i].now + Lease

-----------------------------------------------------------------------------
(* A caller asks an isolate: the cache answers, or a load begins.          *)
AnswerFromCache(i) ==
  /\ IsUsable(cached[i], clock)
  /\ handed' = cached[i].token
  /\ UNCHANGED <<clock, tokenRow, cached, load>>

StartLoad(i) ==
  /\ load[i].pc = "idle"
  /\ ~IsUsable(cached[i], clock)
  /\ load' = [load EXCEPT ![i] = [NoLoad EXCEPT !.pc = "asked", !.now = clock]]
  /\ handed' = NoToken
  /\ UNCHANGED <<clock, tokenRow, cached>>

ReadStored(i) ==
  /\ load[i].pc = "asked"
  /\ IF IsUsable(tokenRow.record, load[i].now)
     THEN /\ cached' = [cached EXCEPT ![i] = tokenRow.record]
          /\ load' = [load EXCEPT ![i] = NoLoad]
          /\ handed' = tokenRow.record.token
     ELSE /\ load' = [load EXCEPT ![i].pc = "stale"]
          /\ handed' = NoToken
          /\ UNCHANGED cached
  /\ UNCHANGED <<clock, tokenRow>>

(* The lease is taken if the row, as it is now, held neither a usable      *)
(* token nor a lease at the load's time; otherwise the load sleeps and     *)
(* begins again with a new time.  A row that is not there is inserted      *)
(* first, and is like one with zeros.                                      *)
AcquireLease(i) ==
  /\ load[i].pc = "stale"
  /\ IF tokenRow.record.expires <= load[i].now /\ tokenRow.lease <= load[i].now
     THEN /\ tokenRow' = [tokenRow EXCEPT !.lease = LeaseOf(i)]
          /\ load' = [load EXCEPT ![i].pc = "authenticating"]
     ELSE /\ load' = [load EXCEPT ![i].pc = "asked", ![i].now = clock]
          /\ UNCHANGED tokenRow
  /\ handed' = NoToken
  /\ UNCHANGED <<clock, cached>>

(* LGU+ issues a token; its answer arrives.                                *)
Authenticate(i) ==
  /\ \/ /\ load[i].pc = "authenticating"
        /\ load' = [load EXCEPT ![i].pc = "issued", ![i].token = clock]
     \/ /\ load[i].pc = "issued"
        /\ load' = [load EXCEPT ![i].pc = "answered", ![i].issued = clock]
  /\ handed' = NoToken
  /\ UNCHANGED <<clock, tokenRow, cached>>

(* Mutant: the expiry leaves out the margin.                               *)
SaveTokenWithoutMargin(i) ==
  /\ load[i].pc = "answered"
  /\ tokenRow.lease = LeaseOf(i)
  /\ LET record == [token |-> load[i].token, issued |-> load[i].issued,
                    expires |-> load[i].issued + Usable + Margin]
     IN /\ tokenRow' = [record |-> record, lease |-> 0]
        /\ cached' = [cached EXCEPT ![i] = record]
        /\ handed' = record.token
  /\ load' = [load EXCEPT ![i] = NoLoad]
  /\ UNCHANGED clock

(* Mutant: the save does not look at the lease.                            *)
SaveTokenBlindly(i) ==
  /\ load[i].pc = "answered"
  /\ LET record == [token |-> load[i].token, issued |-> load[i].issued,
                    expires |-> load[i].issued + Usable]
     IN /\ tokenRow' = [record |-> record, lease |-> 0]
        /\ cached' = [cached EXCEPT ![i] = record]
        /\ handed' = record.token
  /\ load' = [load EXCEPT ![i] = NoLoad]
  /\ UNCHANGED clock

(* The save succeeds only while the row holds the load's own lease; a      *)
(* refused load begins again.                                              *)
SaveToken(i) ==
  /\ load[i].pc = "answered"
  /\ IF tokenRow.lease = LeaseOf(i)
     THEN LET record == [token |-> load[i].token, issued |-> load[i].issued,
                         expires |-> load[i].issued + Usable]
          IN /\ tokenRow' = [record |-> record, lease |-> 0]
             /\ cached' = [cached EXCEPT ![i] = record]
             /\ load' = [load EXCEPT ![i] = NoLoad]
             /\ handed' = record.token
     ELSE /\ load' = [load EXCEPT ![i] = [NoLoad EXCEPT !.pc = "asked", !.now = clock]]
          /\ handed' = NoToken
          /\ UNCHANGED <<tokenRow, cached>>
  /\ UNCHANGED clock

(* The save commits and its answer is lost: what is released afterwards is *)
(* no longer the load's lease.                                             *)
SaveAnswerLost(i) ==
  /\ load[i].pc = "answered" /\ tokenRow.lease = LeaseOf(i)
  /\ tokenRow' = [record |-> [token |-> load[i].token, issued |-> load[i].issued,
                              expires |-> load[i].issued + Usable],
                  lease |-> 0]
  /\ load' = [load EXCEPT ![i].pc = "failed"]
  /\ handed' = NoToken
  /\ UNCHANGED <<clock, cached>>

(* LGU+ refuses, the answer is lost or no token is in it, or the save      *)
(* throws: the load releases its lease, if it still holds it, and throws.  *)
AuthenticationFails(i) ==
  /\ load[i].pc \in {"authenticating", "issued", "answered"}
  /\ load' = [load EXCEPT ![i].pc = "failed"]
  /\ handed' = NoToken
  /\ UNCHANGED <<clock, tokenRow, cached>>

ReleaseLease(i) ==
  /\ load[i].pc = "failed"
  /\ tokenRow' = [tokenRow EXCEPT !.lease = IF tokenRow.lease = LeaseOf(i) THEN 0 ELSE @]
  /\ load' = [load EXCEPT ![i] = NoLoad]
  /\ handed' = NoToken
  /\ UNCHANGED <<clock, cached>>

(* A statement of the load throws, or the isolate is discarded with what   *)
(* it had in memory.                                                       *)
LoadThrows(i) ==
  /\ load[i].pc \in {"asked", "stale", "failed"}
  /\ load' = [load EXCEPT ![i] = NoLoad]
  /\ handed' = NoToken
  /\ UNCHANGED <<clock, tokenRow, cached>>

IsolateDies(i) ==
  /\ load' = [load EXCEPT ![i] = NoLoad]
  /\ cached' = [cached EXCEPT ![i] = NoRecord]
  /\ handed' = NoToken
  /\ UNCHANGED <<clock, tokenRow>>

(* Time passes.  A read and an answer are no slower than Latency; how long *)
(* LGU+ takes before it issues a token is open.                            *)
Tick ==
  /\ clock < MaxClock
  /\ \A i \in Isolates :
       /\ load[i].pc = "asked" => clock < load[i].now + Latency
       /\ load[i].pc \in {"issued", "answered"} => clock < load[i].token + Latency
  /\ clock' = clock + 1
  /\ handed' = NoToken
  /\ UNCHANGED <<tokenRow, cached, load>>

TokenNext ==
  \/ \E i \in Isolates :
       \/ AnswerFromCache(i) \/ StartLoad(i) \/ ReadStored(i) \/ AcquireLease(i)
       \/ Authenticate(i) \/ SaveToken(i) \/ SaveAnswerLost(i) \/ AuthenticationFails(i)
       \/ ReleaseLease(i) \/ LoadThrows(i) \/ IsolateDies(i)
  \/ Tick

TokenSpec == TokenInit /\ [][TokenNext]_tokenVars

-----------------------------------------------------------------------------
(* LGU+ still accepts a token at the moment a caller gets it, from the     *)
(* cache, from the row or from its own authentication, although the code   *)
(* compares expiry with a time it took before the read and counts the      *)
(* lifetime from the arrival of the answer: the margin covers both.        *)
HandedTokensAreAlive ==
  handed # NoToken => clock < handed + Usable + Margin

(* A save never replaces a token by one that was answered earlier: an      *)
(* authentication that outlasted its lease finds that another isolate's    *)
(* save has taken the lease out of the row.                                *)
StoredTokensGetYounger ==
  [][tokenRow'.record.issued >= tokenRow.record.issued]_tokenVars
=============================================================================
