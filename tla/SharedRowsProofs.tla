---------------------------- MODULE SharedRowsProofs ----------------------------
(***************************************************************************)
(* Proofs about rows that isolates, requests and runs of the cron change   *)
(* at once, for any number of them: the access token of LGU+ (TokenLease), *)
(* the enrollment codes of the phones (OfficePhones) and the headers of    *)
(* MMS with their pairs (MmsHeaders).                                      *)
(***************************************************************************)
EXTENDS MCSharedRows, OfficeProofs, FiniteSetTheorems

-----------------------------------------------------------------------------
(***************************************************************************)
(* TokenLease.                                                             *)
(***************************************************************************)
(* What is stored or cached: a token was issued by LGU+ no longer than     *)
(* Latency before its answer, from which its use is counted.               *)
IsOfAnAnswer(r) ==
  /\ r.issued <= r.expires
  /\ r.token # NoToken =>
       /\ r.token <= r.issued /\ r.issued <= r.token + Latency
       /\ r.expires = r.issued + Usable

RecordsAreOfAnswers ==
  /\ IsOfAnAnswer(tokenRow.record)
  /\ \A i \in Isolates : IsOfAnAnswer(cached[i])

(* How late it can be at a step of a load.                                 *)
IsInTime(l) ==
  /\ l.now <= clock
  /\ l.pc = "asked" => clock <= l.now + Latency
  /\ l.pc \in {"issued", "answered"} =>
       l.token \in Nat /\ l.now <= l.token /\ l.token <= clock /\ clock <= l.token + Latency
  /\ l.pc = "answered" => l.token <= l.issued /\ l.issued <= clock

LoadsAreInTime == \A i \in Isolates : IsInTime(load[i])

(* While the row holds the lease of a load, what it stores had expired     *)
(* when that load began: a save by another load takes the lease out, and a *)
(* lease is never 0.                                                       *)
LeaseKeepsTheRow ==
  \A i \in Isolates :
    load[i].pc \in {"authenticating", "issued", "answered"} /\ tokenRow.lease = LeaseOf(i)
    => tokenRow.record.expires <= load[i].now

TokenInv ==
  /\ TokenTypeOK
  /\ RecordsAreOfAnswers
  /\ LoadsAreInTime
  /\ LeaseKeepsTheRow
  /\ HandedTokensAreAlive

LEMMA InitTokenInv == TokenInit => TokenInv
<1> SUFFICES ASSUME TokenInit PROVE TokenInv
  OBVIOUS
<1> USE TokenAssumption DEF TokenInit, NoRecord, NoLoad
<1>1. NoRecord \in Records /\ NoLoad \in Loads /\ IsOfAnAnswer(NoRecord)
  BY DEF Records, Loads, LoadSteps, Tokens, IsOfAnAnswer
<1>2. TokenTypeOK
  BY <1>1 DEF TokenTypeOK, Tokens
<1>3. RecordsAreOfAnswers /\ LoadsAreInTime /\ LeaseKeepsTheRow /\ HandedTokensAreAlive
  BY <1>1 DEF RecordsAreOfAnswers, LoadsAreInTime, IsInTime, LeaseKeepsTheRow,
              HandedTokensAreAlive
<1> QED
  BY <1>2, <1>3 DEF TokenInv

LEMMA TokenTypes ==
  ASSUME TokenInv
  PROVE  /\ clock \in Nat /\ handed \in Tokens
         /\ tokenRow \in [record : Records, lease : Nat]
         /\ tokenRow.record \in Records /\ tokenRow.lease \in Nat
         /\ cached \in [Isolates -> Records]
         /\ load \in [Isolates -> Loads]
         /\ \A i \in Isolates : cached[i] \in Records /\ load[i] \in Loads
BY DEF TokenInv, TokenTypeOK

LEMMA RecordFields ==
  ASSUME NEW r \in Records
  PROVE  r.token \in Tokens /\ r.issued \in Nat /\ r.expires \in Nat
BY DEF Records

LEMMA LoadFields ==
  ASSUME NEW l \in Loads
  PROVE  l.pc \in LoadSteps /\ l.now \in Nat /\ l.token \in Tokens /\ l.issued \in Nat
BY DEF Loads

(* One load goes on, whatever it does with the row and the cache.          *)
LEMMA LoadGoesOn ==
  ASSUME TokenInv, NEW i \in Isolates, NEW l \in Loads, load' = [load EXCEPT ![i] = l],
         IsInTime(l), UNCHANGED clock,
         tokenRow' \in [record : Records, lease : Nat], cached' \in [Isolates -> Records],
         handed' \in Tokens, RecordsAreOfAnswers', LeaseKeepsTheRow', HandedTokensAreAlive'
  PROVE  TokenInv'
<1>1. load'[i] = l /\ \A j \in Isolates : j # i => load'[j] = load[j]
  BY TokenTypes
<1>2. TokenTypeOK'
  BY TokenTypes DEF TokenTypeOK
<1>3. ASSUME NEW j \in Isolates, NEW x, x = load'[j]
      PROVE  IsInTime(x)'
  <2>1. IsInTime(x)
    BY <1>1, <1>3 DEF TokenInv, LoadsAreInTime
  <2> QED
    BY <2>1 DEF IsInTime
<1>4. LoadsAreInTime'
  BY <1>3 DEF LoadsAreInTime, IsInTime
<1> QED
  BY <1>2, <1>4 DEF TokenInv

(* A load goes on by itself.                                               *)
LEMMA LoadAlone ==
  ASSUME TokenInv, NEW i \in Isolates, NEW l \in Loads, load' = [load EXCEPT ![i] = l],
         IsInTime(l), UNCHANGED <<clock, tokenRow, cached>>, handed' = NoToken,
         \/ l.pc \in {"idle", "asked", "stale", "failed"}
         \/ /\ load[i].pc \in {"authenticating", "issued"}
            /\ l.now = load[i].now
  PROVE  TokenInv'
<1>1. load'[i] = l /\ \A j \in Isolates : j # i => load'[j] = load[j]
  BY TokenTypes
<1>2. LeaseKeepsTheRow'
  BY <1>1 DEF TokenInv, LeaseKeepsTheRow, LeaseOf
<1>3. RecordsAreOfAnswers' /\ HandedTokensAreAlive' /\ handed' \in Tokens
  BY DEF TokenInv, RecordsAreOfAnswers, HandedTokensAreAlive, IsOfAnAnswer, Tokens
<1> QED
  BY <1>2, <1>3, TokenTypes, LoadGoesOn

(* A row without a lease is nobody's to save.                              *)
LEMMA NoLeaseNoSave ==
  ASSUME TokenInv, tokenRow'.lease = 0, load' \in [Isolates -> Loads]
  PROVE  LeaseKeepsTheRow'
<1>1. \A i \in Isolates : load'[i].now \in Nat
  BY LoadFields
<1>2. \A i \in Isolates : LeaseOf(i)' # 0
  BY <1>1, TokenAssumption DEF LeaseOf
<1> QED
  BY <1>2 DEF LeaseKeepsTheRow

LEMMA CacheKeeps ==
  ASSUME TokenInv, NEW i \in Isolates, AnswerFromCache(i)
  PROVE  TokenInv'
<1>1. /\ UNCHANGED <<clock, tokenRow, cached, load>> /\ handed' = cached[i].token
      /\ cached[i].token # NoToken /\ cached[i].expires > clock
  BY DEF AnswerFromCache, IsUsable
<1>2. /\ cached[i].token \in Nat /\ cached[i].issued \in Nat /\ cached[i].expires \in Nat
      /\ IsOfAnAnswer(cached[i]) /\ clock \in Nat
  BY <1>1, TokenTypes, RecordFields DEF TokenInv, RecordsAreOfAnswers, Tokens
<1>3. HandedTokensAreAlive'
  BY <1>1, <1>2, TokenAssumption DEF IsOfAnAnswer, HandedTokensAreAlive
<1>4. TokenTypeOK'
  BY <1>1, <1>2, TokenTypes DEF TokenTypeOK, Tokens
<1> QED
  BY <1>1, <1>3, <1>4 DEF TokenInv, RecordsAreOfAnswers, IsOfAnAnswer, LoadsAreInTime,
     IsInTime, LeaseKeepsTheRow, LeaseOf

LEMMA ReadKeeps ==
  ASSUME TokenInv, NEW i \in Isolates, ReadStored(i)
  PROVE  TokenInv'
<1>1. load[i].pc = "asked" /\ UNCHANGED <<clock, tokenRow>>
  BY DEF ReadStored
<1>2. /\ load[i] \in Loads /\ load[i].now \in Nat /\ clock \in Nat
      /\ clock <= load[i].now + Latency /\ load[i].now <= clock
  BY <1>1, TokenTypes, LoadFields DEF TokenInv, LoadsAreInTime, IsInTime
<1>3. CASE IsUsable(tokenRow.record, load[i].now)
  <2>1. /\ cached' = [cached EXCEPT ![i] = tokenRow.record]
        /\ load' = [load EXCEPT ![i] = NoLoad]
        /\ handed' = tokenRow.record.token
    BY <1>3 DEF ReadStored
  <2>2. /\ tokenRow.record.token \in Nat /\ tokenRow.record.token # NoToken
        /\ tokenRow.record.issued \in Nat /\ tokenRow.record.expires \in Nat
        /\ tokenRow.record.expires > load[i].now /\ IsOfAnAnswer(tokenRow.record)
    BY <1>3, TokenTypes, RecordFields DEF TokenInv, RecordsAreOfAnswers, Tokens, IsUsable
  <2>3. HandedTokensAreAlive'
    BY <1>1, <1>2, <2>1, <2>2, TokenAssumption DEF IsOfAnAnswer, HandedTokensAreAlive
  <2>4. /\ cached' \in [Isolates -> Records]
        /\ \A j \in Isolates : cached'[j] = IF j = i THEN tokenRow.record ELSE cached[j]
    BY <2>1, TokenTypes
  <2>5. RecordsAreOfAnswers'
    BY <1>1, <2>2, <2>4 DEF TokenInv, RecordsAreOfAnswers, IsOfAnAnswer
  <2>6. NoLoad \in Loads /\ IsInTime(NoLoad)
    BY <1>2 DEF NoLoad, Loads, LoadSteps, Tokens, IsInTime
  <2>7. /\ load'[i] = NoLoad /\ NoLoad.pc = "idle"
        /\ \A j \in Isolates : j # i => load'[j] = load[j]
    BY <2>1, TokenTypes DEF NoLoad
  <2>8. LeaseKeepsTheRow'
    BY <1>1, <2>7 DEF TokenInv, LeaseKeepsTheRow, LeaseOf
  <2>9. handed' \in Tokens
    BY <2>1, <2>2 DEF Tokens
  <2> QED
    BY <1>1, <2>1, <2>3, <2>4, <2>5, <2>6, <2>8, <2>9, TokenTypes, LoadGoesOn
<1>4. CASE ~IsUsable(tokenRow.record, load[i].now)
  <2>1. PICK l : l = [load[i] EXCEPT !.pc = "stale"]
    OBVIOUS
  <2>2. l \in Loads /\ l.pc = "stale" /\ l.now = load[i].now
    BY <1>2, <2>1 DEF Loads, LoadSteps
  <2>3. load' = [load EXCEPT ![i] = l] /\ handed' = NoToken /\ UNCHANGED cached
    BY <1>4, <2>1, TokenTypes DEF ReadStored
  <2>4. IsInTime(l)
    BY <1>2, <2>2 DEF IsInTime
  <2> QED
    BY <1>1, <2>2, <2>3, <2>4, LoadAlone
<1> QED
  BY <1>3, <1>4

LEMMA AcquireKeeps ==
  ASSUME TokenInv, NEW i \in Isolates, AcquireLease(i)
  PROVE  TokenInv'
<1>1. load[i].pc = "stale" /\ UNCHANGED <<clock, cached>> /\ handed' = NoToken
  BY DEF AcquireLease
<1>2. /\ load[i] \in Loads /\ load[i].now \in Nat /\ clock \in Nat /\ load[i].now <= clock
      /\ tokenRow.record \in Records /\ tokenRow.lease \in Nat
  BY <1>1, TokenTypes, LoadFields DEF TokenInv, LoadsAreInTime, IsInTime
<1>3. CASE tokenRow.record.expires <= load[i].now /\ tokenRow.lease <= load[i].now
  <2>1. PICK l : l = [load[i] EXCEPT !.pc = "authenticating"]
    OBVIOUS
  <2>2. l \in Loads /\ l.pc = "authenticating" /\ l.now = load[i].now
    BY <1>2, <2>1 DEF Loads, LoadSteps
  <2>3. /\ load' = [load EXCEPT ![i] = l]
        /\ tokenRow' = [tokenRow EXCEPT !.lease = LeaseOf(i)]
    BY <1>3, <2>1, TokenTypes DEF AcquireLease
  <2>4. IsInTime(l)
    BY <1>2, <2>2 DEF IsInTime
  <2>5. /\ tokenRow' \in [record : Records, lease : Nat]
        /\ tokenRow'.record = tokenRow.record /\ tokenRow'.lease = load[i].now + Lease
    BY <1>2, <2>3, TokenTypes, TokenAssumption DEF LeaseOf
  <2>6. load'[i] = l /\ \A j \in Isolates : j # i => load'[j] = load[j]
    BY <2>3, TokenTypes
  <2>7. ASSUME NEW j \in Isolates, tokenRow'.lease = LeaseOf(j)'
        PROVE  tokenRow'.record.expires <= load'[j].now
    <3>1. load'[j].now \in Nat
      BY <1>2, <2>2, <2>6, TokenTypes, LoadFields
    <3>2. load'[j].now = load[i].now
      BY <1>2, <2>5, <2>7, <3>1, TokenAssumption DEF LeaseOf
    <3> QED
      BY <1>3, <2>5, <3>2
  <2>8. LeaseKeepsTheRow'
    BY <2>7 DEF LeaseKeepsTheRow
  <2>9. RecordsAreOfAnswers' /\ HandedTokensAreAlive' /\ handed' \in Tokens
    BY <1>1, <2>5 DEF TokenInv, RecordsAreOfAnswers, HandedTokensAreAlive, IsOfAnAnswer, Tokens
  <2> QED
    BY <1>1, <2>2, <2>3, <2>4, <2>5, <2>8, <2>9, TokenTypes, LoadGoesOn
<1>4. CASE ~(tokenRow.record.expires <= load[i].now /\ tokenRow.lease <= load[i].now)
  <2>1. PICK l : l = [[load[i] EXCEPT !.pc = "asked"] EXCEPT !.now = clock]
    OBVIOUS
  <2>2. l \in Loads /\ l.pc = "asked" /\ l.now = clock
    BY <1>2, <2>1 DEF Loads, LoadSteps
  <2>3. load' = [load EXCEPT ![i] = l] /\ UNCHANGED tokenRow
    BY <1>4, <2>1, TokenTypes DEF AcquireLease
  <2>4. IsInTime(l)
    BY <1>2, <2>2, TokenAssumption DEF IsInTime
  <2> QED
    BY <1>1, <2>2, <2>3, <2>4, LoadAlone
<1> QED
  BY <1>3, <1>4

LEMMA AuthenticateKeeps ==
  ASSUME TokenInv, NEW i \in Isolates, Authenticate(i)
  PROVE  TokenInv'
<1>1. UNCHANGED <<clock, tokenRow, cached>> /\ handed' = NoToken
  BY DEF Authenticate
<1>2. /\ load[i] \in Loads /\ load[i].now \in Nat /\ clock \in Nat
      /\ load[i].pc \in LoadSteps /\ IsInTime(load[i])
  BY <1>1, TokenTypes, LoadFields DEF TokenInv, LoadsAreInTime
<1>3. CASE load[i].pc = "authenticating"
  <2>1. PICK l : l = [[load[i] EXCEPT !.pc = "issued"] EXCEPT !.token = clock]
    OBVIOUS
  <2>2. l \in Loads /\ l.pc = "issued" /\ l.token = clock /\ l.now = load[i].now
    BY <1>2, <2>1 DEF Loads, LoadSteps, Tokens
  <2>3. load' = [load EXCEPT ![i] = l]
    BY <1>3, <2>1, TokenTypes DEF Authenticate
  <2>4. IsInTime(l)
    BY <1>2, <2>2, TokenAssumption DEF IsInTime
  <2> QED
    BY <1>1, <1>3, <2>2, <2>3, <2>4, LoadAlone
<1>4. CASE load[i].pc = "issued"
  <2>1. PICK l : l = [[load[i] EXCEPT !.pc = "answered"] EXCEPT !.issued = clock]
    OBVIOUS
  <2>2. /\ l \in Loads /\ l.pc = "answered" /\ l.token = load[i].token /\ l.now = load[i].now
        /\ l.issued = clock
    BY <1>2, <2>1 DEF Loads, LoadSteps
  <2>3. load' = [load EXCEPT ![i] = l]
    BY <1>4, <2>1, TokenTypes DEF Authenticate
  <2>4. IsInTime(l)
    BY <1>2, <1>4, <2>2 DEF IsInTime
  <2> QED
    BY <1>1, <1>4, <2>2, <2>3, <2>4, LoadAlone
<1> QED
  BY <1>3, <1>4 DEF Authenticate

(* The record a load saves, if the row still holds its lease.              *)
LEMMA SavedRecord ==
  ASSUME TokenInv, NEW i \in Isolates, load[i].pc = "answered", NEW r,
         r = [token |-> load[i].token, issued |-> load[i].issued,
              expires |-> load[i].issued + Usable]
  PROVE  /\ r \in Records /\ r.token \in Nat /\ IsOfAnAnswer(r)
         /\ clock < r.token + Usable + Margin
         /\ tokenRow.lease = LeaseOf(i) => tokenRow.record.issued <= r.issued
<1>1. /\ load[i].token \in Nat /\ load[i].issued \in Nat /\ load[i].now \in Nat
      /\ clock \in Nat /\ load[i].now <= load[i].token /\ load[i].token <= load[i].issued
      /\ load[i].issued <= clock /\ clock <= load[i].token + Latency
  BY TokenTypes, LoadFields DEF TokenInv, LoadsAreInTime, IsInTime
<1>2. r.token = load[i].token /\ r.issued = load[i].issued /\ r.expires = load[i].issued + Usable
  OBVIOUS
<1>3. r \in Records
  BY <1>1, TokenAssumption DEF Records, Tokens
<1>4. IsOfAnAnswer(r) /\ clock < r.token + Usable + Margin
  BY <1>1, <1>2, TokenAssumption DEF IsOfAnAnswer
<1>5. ASSUME tokenRow.lease = LeaseOf(i)
      PROVE  tokenRow.record.issued <= r.issued
  <2>1. tokenRow.record.expires <= load[i].now /\ IsOfAnAnswer(tokenRow.record)
    BY <1>5 DEF TokenInv, LeaseKeepsTheRow, RecordsAreOfAnswers
  <2>2. tokenRow.record.issued \in Nat /\ tokenRow.record.expires \in Nat
    BY TokenTypes, RecordFields
  <2> QED
    BY <1>1, <1>2, <2>1, <2>2 DEF IsOfAnAnswer
<1> QED
  BY <1>1, <1>2, <1>3, <1>4, <1>5

LEMMA SaveKeeps ==
  ASSUME TokenInv, NEW i \in Isolates, SaveToken(i)
  PROVE  TokenInv' /\ tokenRow'.record.issued >= tokenRow.record.issued
<1>0. tokenRow.record.issued \in Nat /\ clock \in Nat
  BY TokenTypes, RecordFields
<1>1. load[i].pc = "answered" /\ UNCHANGED clock
  BY DEF SaveToken
<1>2. CASE tokenRow.lease = LeaseOf(i)
  <2>1. PICK r : r = [token |-> load[i].token, issued |-> load[i].issued,
                      expires |-> load[i].issued + Usable]
    OBVIOUS
  <2>2. /\ tokenRow' = [record |-> r, lease |-> 0]
        /\ cached' = [cached EXCEPT ![i] = r]
        /\ load' = [load EXCEPT ![i] = NoLoad]
        /\ handed' = r.token
    BY <1>2, <2>1 DEF SaveToken
  <2>3. /\ r \in Records /\ r.token \in Nat /\ IsOfAnAnswer(r)
        /\ clock < r.token + Usable + Margin /\ tokenRow.record.issued <= r.issued
    BY <1>1, <1>2, <2>1, SavedRecord
  <2>4. HandedTokensAreAlive' /\ handed' \in Tokens
    BY <1>1, <2>2, <2>3 DEF HandedTokensAreAlive, Tokens
  <2>5. /\ cached' \in [Isolates -> Records]
        /\ \A j \in Isolates : cached'[j] = IF j = i THEN r ELSE cached[j]
    BY <2>2, <2>3, TokenTypes
  <2>6. /\ tokenRow' \in [record : Records, lease : Nat]
        /\ tokenRow'.record = r /\ tokenRow'.lease = 0
    BY <2>2, <2>3
  <2>7. RecordsAreOfAnswers'
    BY <2>3, <2>5, <2>6 DEF TokenInv, RecordsAreOfAnswers, IsOfAnAnswer
  <2>8. NoLoad \in Loads /\ IsInTime(NoLoad)
    BY <1>0 DEF NoLoad, Loads, LoadSteps, Tokens, IsInTime
  <2>9. load' \in [Isolates -> Loads]
    BY <2>2, <2>8, TokenTypes
  <2>10. LeaseKeepsTheRow'
    BY <2>6, <2>9, NoLeaseNoSave
  <2>11. TokenInv'
    BY <1>1, <2>2, <2>4, <2>5, <2>6, <2>7, <2>8, <2>10, LoadGoesOn
  <2> QED
    BY <1>0, <2>3, <2>6, <2>11, RecordFields
<1>3. CASE tokenRow.lease # LeaseOf(i)
  <2>1. PICK l : l = [[NoLoad EXCEPT !.pc = "asked"] EXCEPT !.now = clock]
    OBVIOUS
  <2>2. l \in Loads /\ l.pc = "asked" /\ l.now = clock
    BY <1>0, <2>1 DEF NoLoad, Loads, LoadSteps, Tokens
  <2>3. /\ load' = [load EXCEPT ![i] = l] /\ UNCHANGED <<tokenRow, cached>>
        /\ handed' = NoToken
    BY <1>3, <2>1 DEF SaveToken
  <2>4. IsInTime(l)
    BY <1>0, <2>2, TokenAssumption DEF IsInTime
  <2>5. TokenInv'
    BY <1>1, <2>2, <2>3, <2>4, LoadAlone
  <2> QED
    BY <1>0, <2>3, <2>5
<1> QED
  BY <1>2, <1>3

LEMMA SaveLostKeeps ==
  ASSUME TokenInv, NEW i \in Isolates, SaveAnswerLost(i)
  PROVE  TokenInv' /\ tokenRow'.record.issued >= tokenRow.record.issued
<1>0. /\ tokenRow.record.issued \in Nat /\ clock \in Nat
      /\ load[i] \in Loads /\ load[i].now <= clock
  BY TokenTypes, RecordFields DEF TokenInv, LoadsAreInTime, IsInTime
<1>1. PICK r : r = [token |-> load[i].token, issued |-> load[i].issued,
                    expires |-> load[i].issued + Usable]
  OBVIOUS
<1>2. PICK l : l = [load[i] EXCEPT !.pc = "failed"]
  OBVIOUS
<1>3. /\ load[i].pc = "answered" /\ tokenRow.lease = LeaseOf(i)
      /\ tokenRow' = [record |-> r, lease |-> 0]
      /\ load' = [load EXCEPT ![i] = l]
      /\ handed' = NoToken /\ UNCHANGED <<clock, cached>>
  BY <1>1, <1>2, TokenTypes DEF SaveAnswerLost
<1>4. r \in Records /\ IsOfAnAnswer(r) /\ tokenRow.record.issued <= r.issued
  BY <1>1, <1>3, SavedRecord
<1>5. l \in Loads /\ l.pc = "failed" /\ l.now = load[i].now
  BY <1>0, <1>2 DEF Loads, LoadSteps
<1>6. IsInTime(l)
  BY <1>0, <1>5 DEF IsInTime
<1>7. /\ tokenRow' \in [record : Records, lease : Nat]
      /\ tokenRow'.record = r /\ tokenRow'.lease = 0
  BY <1>3, <1>4
<1>8. load' \in [Isolates -> Loads]
  BY <1>3, <1>5, TokenTypes
<1>9. LeaseKeepsTheRow'
  BY <1>7, <1>8, NoLeaseNoSave
<1>10. RecordsAreOfAnswers' /\ HandedTokensAreAlive' /\ handed' \in Tokens
  BY <1>3, <1>4, <1>7 DEF TokenInv, RecordsAreOfAnswers, IsOfAnAnswer, HandedTokensAreAlive,
     Tokens
<1>11. TokenInv'
  BY <1>3, <1>5, <1>6, <1>7, <1>9, <1>10, TokenTypes, LoadGoesOn
<1> QED
  BY <1>0, <1>4, <1>7, <1>11, RecordFields

LEMMA ReleaseKeeps ==
  ASSUME TokenInv, NEW i \in Isolates, ReleaseLease(i)
  PROVE  TokenInv'
<1>1. /\ tokenRow' = [tokenRow EXCEPT !.lease = IF tokenRow.lease = LeaseOf(i) THEN 0 ELSE @]
      /\ load' = [load EXCEPT ![i] = NoLoad]
      /\ handed' = NoToken /\ UNCHANGED <<clock, cached>>
  BY DEF ReleaseLease
<1>2. NoLoad \in Loads /\ IsInTime(NoLoad) /\ NoLoad.pc = "idle"
  BY TokenTypes DEF NoLoad, Loads, LoadSteps, Tokens, IsInTime
<1>3. /\ tokenRow' \in [record : Records, lease : Nat]
      /\ tokenRow'.record = tokenRow.record
      /\ tokenRow'.lease = 0 \/ tokenRow'.lease = tokenRow.lease
  BY <1>1, TokenTypes
<1>4. /\ load' \in [Isolates -> Loads] /\ load'[i] = NoLoad
      /\ \A j \in Isolates : j # i => load'[j] = load[j]
  BY <1>1, <1>2, TokenTypes
<1>5. LeaseKeepsTheRow'
  <2>1. CASE tokenRow'.lease = 0
    BY <1>4, <2>1, NoLeaseNoSave
  <2>2. CASE tokenRow'.lease = tokenRow.lease
    BY <1>2, <1>3, <1>4, <2>2 DEF TokenInv, LeaseKeepsTheRow, LeaseOf
  <2> QED
    BY <1>3, <2>1, <2>2
<1>6. RecordsAreOfAnswers' /\ HandedTokensAreAlive' /\ handed' \in Tokens
  BY <1>1, <1>3 DEF TokenInv, RecordsAreOfAnswers, IsOfAnAnswer, HandedTokensAreAlive, Tokens
<1> QED
  BY <1>1, <1>2, <1>3, <1>5, <1>6, TokenTypes, LoadGoesOn

LEMMA DeathKeeps ==
  ASSUME TokenInv, NEW i \in Isolates, IsolateDies(i)
  PROVE  TokenInv'
<1>1. /\ load' = [load EXCEPT ![i] = NoLoad] /\ cached' = [cached EXCEPT ![i] = NoRecord]
      /\ handed' = NoToken /\ UNCHANGED <<clock, tokenRow>>
  BY DEF IsolateDies
<1>2. NoLoad \in Loads /\ IsInTime(NoLoad) /\ NoLoad.pc = "idle"
  BY TokenTypes DEF NoLoad, Loads, LoadSteps, Tokens, IsInTime
<1>3. NoRecord \in Records /\ IsOfAnAnswer(NoRecord)
  BY DEF NoRecord, Records, Tokens, IsOfAnAnswer
<1>4. /\ cached' \in [Isolates -> Records]
      /\ \A j \in Isolates : cached'[j] = IF j = i THEN NoRecord ELSE cached[j]
  BY <1>1, <1>3, TokenTypes
<1>5. load'[i] = NoLoad /\ \A j \in Isolates : j # i => load'[j] = load[j]
  BY <1>1, TokenTypes
<1>6. LeaseKeepsTheRow'
  BY <1>1, <1>2, <1>5 DEF TokenInv, LeaseKeepsTheRow, LeaseOf
<1>7. RecordsAreOfAnswers' /\ HandedTokensAreAlive' /\ handed' \in Tokens
  BY <1>1, <1>3, <1>4 DEF TokenInv, RecordsAreOfAnswers, IsOfAnAnswer, HandedTokensAreAlive,
     Tokens
<1> QED
  BY <1>1, <1>2, <1>4, <1>6, <1>7, TokenTypes, LoadGoesOn

LEMMA TickKeeps ==
  ASSUME TokenInv, Tick
  PROVE  TokenInv'
<1>1. /\ clock' = clock + 1 /\ handed' = NoToken /\ UNCHANGED <<tokenRow, cached, load>>
      /\ \A i \in Isolates :
           /\ load[i].pc = "asked" => clock < load[i].now + Latency
           /\ load[i].pc \in {"issued", "answered"} => clock < load[i].token + Latency
  BY DEF Tick
<1>2. clock \in Nat /\ clock' \in Nat
  BY <1>1, TokenTypes
<1>3. ASSUME NEW i \in Isolates
      PROVE  IsInTime(load[i])'
  <2>1. /\ load[i].now \in Nat /\ load[i].issued \in Nat /\ load[i].token \in Tokens
        /\ IsInTime(load[i]) /\ load'[i] = load[i]
    BY <1>1, TokenTypes, LoadFields DEF TokenInv, LoadsAreInTime
  <2> QED
    BY <1>1, <1>2, <2>1, TokenAssumption DEF IsInTime
<1>4. LoadsAreInTime'
  BY <1>3 DEF LoadsAreInTime
<1>5. TokenTypeOK'
  BY <1>1, <1>2, TokenTypes DEF TokenTypeOK, Tokens
<1> QED
  BY <1>1, <1>4, <1>5 DEF TokenInv, RecordsAreOfAnswers, IsOfAnAnswer, LeaseKeepsTheRow,
     LeaseOf, HandedTokensAreAlive

LEMMA StepTokenInv ==
  TokenInv /\ [TokenNext]_tokenVars
  => TokenInv' /\ tokenRow'.record.issued >= tokenRow.record.issued
<1> SUFFICES ASSUME TokenInv, [TokenNext]_tokenVars
             PROVE  TokenInv' /\ tokenRow'.record.issued >= tokenRow.record.issued
  OBVIOUS
<1> DEFINE Goal == TokenInv' /\ tokenRow'.record.issued >= tokenRow.record.issued
<1>0. tokenRow.record.issued \in Nat /\ clock \in Nat
  BY TokenTypes, RecordFields
<1>1. ASSUME TokenInv', tokenRow'.record = tokenRow.record PROVE Goal
  BY <1>0, <1>1
<1> HIDE DEF Goal
<1>2. ASSUME NEW i \in Isolates, AnswerFromCache(i) PROVE Goal
  BY <1>1, <1>2, CacheKeeps DEF AnswerFromCache
<1>3. ASSUME NEW i \in Isolates, StartLoad(i) PROVE Goal
  <2>1. PICK l : l = [[NoLoad EXCEPT !.pc = "asked"] EXCEPT !.now = clock]
    OBVIOUS
  <2>2. l \in Loads /\ l.pc = "asked" /\ l.now = clock
    BY <1>0, <2>1 DEF NoLoad, Loads, LoadSteps, Tokens
  <2>3. /\ load' = [load EXCEPT ![i] = l] /\ UNCHANGED <<clock, tokenRow, cached>>
        /\ handed' = NoToken
    BY <1>3, <2>1 DEF StartLoad
  <2>4. IsInTime(l)
    BY <1>0, <2>2, TokenAssumption DEF IsInTime
  <2> QED
    BY <1>1, <2>2, <2>3, <2>4, LoadAlone
<1>4. ASSUME NEW i \in Isolates, ReadStored(i) PROVE Goal
  BY <1>1, <1>4, ReadKeeps DEF ReadStored
<1>5. ASSUME NEW i \in Isolates, AcquireLease(i) PROVE Goal
  <2>1. tokenRow'.record = tokenRow.record
    BY <1>5, TokenTypes DEF AcquireLease
  <2> QED
    BY <1>1, <1>5, <2>1, AcquireKeeps
<1>6. ASSUME NEW i \in Isolates, Authenticate(i) PROVE Goal
  BY <1>1, <1>6, AuthenticateKeeps DEF Authenticate
<1>7. ASSUME NEW i \in Isolates, SaveToken(i) \/ SaveAnswerLost(i) PROVE Goal
  BY <1>7, SaveKeeps, SaveLostKeeps DEF Goal
<1>8. ASSUME NEW i \in Isolates, AuthenticationFails(i) PROVE Goal
  <2>0. load[i] \in Loads /\ load[i].now <= clock
    BY TokenTypes DEF TokenInv, LoadsAreInTime, IsInTime
  <2>1. PICK l : l = [load[i] EXCEPT !.pc = "failed"]
    OBVIOUS
  <2>2. l \in Loads /\ l.pc = "failed" /\ l.now = load[i].now
    BY <2>0, <2>1 DEF Loads, LoadSteps
  <2>3. /\ load' = [load EXCEPT ![i] = l] /\ UNCHANGED <<clock, tokenRow, cached>>
        /\ handed' = NoToken
    BY <1>8, <2>1, TokenTypes DEF AuthenticationFails
  <2>4. IsInTime(l)
    BY <2>0, <2>2 DEF IsInTime
  <2> QED
    BY <1>1, <2>2, <2>3, <2>4, LoadAlone
<1>9. ASSUME NEW i \in Isolates, ReleaseLease(i) PROVE Goal
  <2>1. tokenRow'.record = tokenRow.record
    BY <1>9, TokenTypes DEF ReleaseLease
  <2> QED
    BY <1>1, <1>9, <2>1, ReleaseKeeps
<1>10. ASSUME NEW i \in Isolates, LoadThrows(i) PROVE Goal
  <2>1. /\ load' = [load EXCEPT ![i] = NoLoad] /\ UNCHANGED <<clock, tokenRow, cached>>
        /\ handed' = NoToken
    BY <1>10 DEF LoadThrows
  <2>2. NoLoad \in Loads /\ IsInTime(NoLoad) /\ NoLoad.pc = "idle"
    BY <1>0 DEF NoLoad, Loads, LoadSteps, Tokens, IsInTime
  <2> QED
    BY <1>1, <2>1, <2>2, LoadAlone
<1>11. ASSUME NEW i \in Isolates, IsolateDies(i) PROVE Goal
  BY <1>1, <1>11, DeathKeeps DEF IsolateDies
<1>12. ASSUME Tick PROVE Goal
  BY <1>1, <1>12, TickKeeps DEF Tick
<1>13. ASSUME UNCHANGED tokenVars PROVE Goal
  <2>1. TokenInv'
    BY <1>13 DEF tokenVars, TokenInv, TokenTypeOK, RecordsAreOfAnswers, IsOfAnAnswer,
       LoadsAreInTime, IsInTime, LeaseKeepsTheRow, LeaseOf, HandedTokensAreAlive
  <2> QED
    BY <1>1, <1>13, <2>1 DEF tokenVars
<1>14. Goal
  BY <1>2, <1>3, <1>4, <1>5, <1>6, <1>7, <1>8, <1>9, <1>10, <1>11, <1>12, <1>13 DEF TokenNext
<1> QED
  BY <1>14 DEF Goal

(* Tokens are what LGU+ issued, loads are in time, and the lease keeps the *)
(* row as it was when its load began.                                      *)
THEOREM TokenInvariant == TokenSpec => []TokenInv
<1>1. TokenInv /\ [TokenNext]_tokenVars => TokenInv'
  BY StepTokenInv
<1> QED
  BY <1>1, InitTokenInv, PTL DEF TokenSpec

(* A caller gets a token LGU+ still accepts, whatever isolates, restarts   *)
(* and lost answers cross, if reads and answers take at most half of the   *)
(* margin (load and authenticate).                                         *)
THEOREM HandedAreAlive == TokenSpec => []HandedTokensAreAlive
<1>1. TokenInv => HandedTokensAreAlive
  BY DEF TokenInv
<1> QED
  BY <1>1, TokenInvariant, PTL

(* No save puts an older answer in the place of a younger one.             *)
THEOREM StoredGetYounger == TokenSpec => StoredTokensGetYounger
<1>1. TokenInv /\ [TokenNext]_tokenVars
      => [tokenRow'.record.issued >= tokenRow.record.issued]_tokenVars
  BY StepTokenInv
<1> QED
  BY <1>1, TokenInvariant, PTL DEF TokenSpec, StoredTokensGetYounger

-----------------------------------------------------------------------------
(***************************************************************************)
(* OfficePhones.                                                           *)
(***************************************************************************)
Reserved == {r \in PhoneRequests : attempts[r].at # Never}

(* What an actor has reserved from t on, in a window.                      *)
Made(a, t) == {r \in Reserved : wanted[r].actor = a /\ attempts[r].at \in t .. (t + Window)}

(* An attempt is reserved in its step, and before anything is issued.      *)
AttemptsAreReserved ==
  /\ \A r \in PhoneRequests :
       wanted[r].pc \in {"none", "admitted", "reserving"} => r \notin Reserved
  /\ \A r \in PhoneRequests :
       wanted[r].pc \in {"reserved", "answered", "threw"} => r \in Reserved
  /\ issued \subseteq Reserved
  /\ IsFiniteSet(Reserved)

AttemptsAreLimited == \A a \in Actors, t \in 0 .. LastTick : Cardinality(Made(a, t)) <= Limit

PhoneInv ==
  /\ PhoneTypeOK
  /\ AttemptsAreReserved
  /\ AttemptsAreLimited

LEMMA InitPhoneInv == PhoneInit => PhoneInv
<1> SUFFICES ASSUME PhoneInit PROVE PhoneInv
  OBVIOUS
<1> USE PhoneAssumption DEF PhoneInit
<1>1. /\ \A r \in PhoneRequests : wanted[r] = NoWish /\ attempts[r] = NoAttempt
      /\ Never \in Nat /\ Never \in 0 .. Never /\ 0 \in 0 .. LastTick
  BY DEF Never
<1>2. wanted \in [PhoneRequests ->
                   [pc : {"none", "admitted", "reserving", "reserved", "answered",
                          "threw", "over"},
                    actor : Actors \union {NoActorYet}, now : 0..LastTick]]
  BY <1>1 DEF NoWish
<1>3. attempts \in [PhoneRequests ->
                     [at : 0..Never, results : SUBSET {"succeeded", "failed"}]]
  BY <1>1 DEF NoAttempt
<1>4. PhoneTypeOK
  BY <1>1, <1>2, <1>3 DEF PhoneTypeOK
<1>5. Reserved = {}
  BY <1>1 DEF Reserved, NoAttempt
<1>6. AttemptsAreReserved
  BY <1>1, <1>5, FS_EmptySet DEF AttemptsAreReserved, NoWish
<1>7. AttemptsAreLimited
  <2>1. \A a \in Actors, t \in 0 .. LastTick : Made(a, t) = {}
    BY <1>5 DEF Made
  <2> QED
    BY <2>1, FS_EmptySet DEF AttemptsAreLimited
<1> QED
  BY <1>4, <1>6, <1>7 DEF PhoneInv

LEMMA PhoneTypes ==
  ASSUME PhoneInv
  PROVE  /\ ticks \in 0 .. LastTick
         /\ \A r \in PhoneRequests :
              /\ wanted[r].actor \in Actors \union {NoActorYet}
              /\ wanted[r].now \in 0 .. LastTick
              /\ attempts[r].at \in 0 .. Never
              /\ attempts[r].results \subseteq {"succeeded", "failed"}
         /\ LastTick \in Nat /\ Window \in Nat /\ Limit \in Nat /\ Never = LastTick + 1
         /\ DOMAIN wanted = PhoneRequests /\ DOMAIN attempts = PhoneRequests
BY PhoneAssumption DEF PhoneInv, PhoneTypeOK, Never

(* A request goes on and reserves nothing.                                 *)
LEMMA RequestGoes ==
  ASSUME PhoneInv, NEW r \in PhoneRequests, NEW pc, Goes(r, pc),
         pc \in {"reserved", "answered", "threw"} => r \in Reserved,
         pc \in {"reserved", "answered", "threw", "over"},
         attempts' \in [PhoneRequests ->
                         [at : 0..Never, results : SUBSET {"succeeded", "failed"}]],
         \A q \in PhoneRequests : attempts'[q].at = attempts[q].at,
         phones' \in [Phones -> [state : {"none", "active", "inactive"}, key : 0..MaxKey]],
         issued' \subseteq Reserved, UNCHANGED <<ticks, managers>>
  PROVE  PhoneInv'
<1>1. /\ wanted' \in [PhoneRequests ->
                   [pc : {"none", "admitted", "reserving", "reserved", "answered",
                          "threw", "over"},
                    actor : Actors \union {NoActorYet}, now : 0..LastTick]]
      /\ wanted'[r].pc = pc
      /\ \A q \in PhoneRequests : q # r => wanted'[q] = wanted[q]
      /\ \A q \in PhoneRequests : wanted'[q].actor = wanted[q].actor
  <2>1. wanted' = [wanted EXCEPT ![r] = [wanted[r] EXCEPT !.pc = pc]]
    BY DEF Goes
  <2>2. wanted[r] \in [pc : {"none", "admitted", "reserving", "reserved", "answered",
                            "threw", "over"},
                      actor : Actors \union {NoActorYet}, now : 0..LastTick]
    BY DEF PhoneInv, PhoneTypeOK
  <2>3. PICK x : x = [wanted[r] EXCEPT !.pc = pc]
    OBVIOUS
  <2>4. /\ x \in [pc : {"none", "admitted", "reserving", "reserved", "answered",
                        "threw", "over"},
                  actor : Actors \union {NoActorYet}, now : 0..LastTick]
        /\ x.pc = pc /\ x.actor = wanted[r].actor
    BY <2>2, <2>3
  <2>5. wanted' = [wanted EXCEPT ![r] = x]
    BY <2>1, <2>3
  <2> QED
    BY <2>4, <2>5 DEF PhoneInv, PhoneTypeOK
<1>2. Reserved' = Reserved
  BY DEF Reserved, Never
<1>3. PhoneTypeOK'
  BY <1>1, <1>2 DEF PhoneInv, PhoneTypeOK, Reserved, Never
<1>4. AttemptsAreReserved'
  BY <1>1, <1>2 DEF PhoneInv, AttemptsAreReserved
<1>5. \A a \in Actors, t \in 0 .. LastTick : Made(a, t)' = Made(a, t)
  BY <1>1, <1>2 DEF Made, Reserved
<1>6. AttemptsAreLimited'
  BY <1>5 DEF PhoneInv, AttemptsAreLimited
<1> QED
  BY <1>3, <1>4, <1>6 DEF PhoneInv

LEMMA AdmitKeeps ==
  ASSUME PhoneInv, NEW r \in PhoneRequests, NEW a \in Actors, AdmitPhoneRequest(r, a)
  PROVE  PhoneInv'
<1>1. /\ wanted[r] = NoWish /\ wanted[r].pc = "none"
      /\ wanted' = [wanted EXCEPT ![r].pc = "admitted", ![r].actor = a]
      /\ UNCHANGED <<ticks, phones, managers, attempts, issued>>
  BY DEF AdmitPhoneRequest, NoWish
<1>2. /\ wanted' \in [PhoneRequests ->
                   [pc : {"none", "admitted", "reserving", "reserved", "answered",
                          "threw", "over"},
                    actor : Actors \union {NoActorYet}, now : 0..LastTick]]
      /\ wanted'[r].pc = "admitted"
      /\ \A q \in PhoneRequests : q # r => wanted'[q] = wanted[q]
  <2>1. PICK w : w = [[wanted[r] EXCEPT !.pc = "admitted"] EXCEPT !.actor = a]
    OBVIOUS
  <2>2. /\ w \in [pc : {"none", "admitted", "reserving", "reserved", "answered",
                       "threw", "over"},
                 actor : Actors \union {NoActorYet}, now : 0..LastTick]
        /\ w.pc = "admitted"
    BY <2>1 DEF PhoneInv, PhoneTypeOK
  <2>3. wanted' = [wanted EXCEPT ![r] = w]
    BY <1>1, <2>1 DEF PhoneInv, PhoneTypeOK
  <2> QED
    BY <2>2, <2>3 DEF PhoneInv, PhoneTypeOK
<1>3. Reserved' = Reserved /\ r \notin Reserved
  BY <1>1 DEF Reserved, Never, PhoneInv, AttemptsAreReserved
<1>4. PhoneTypeOK'
  BY <1>1, <1>2 DEF PhoneInv, PhoneTypeOK, Never
<1>5. AttemptsAreReserved'
  BY <1>1, <1>2, <1>3 DEF PhoneInv, AttemptsAreReserved
<1>6. \A b \in Actors, t \in 0 .. LastTick : Made(b, t)' = Made(b, t)
  <2>1. \A q \in Reserved : wanted'[q] = wanted[q]
    BY <1>2, <1>3 DEF Reserved
  <2> QED
    BY <1>1, <1>3, <2>1 DEF Made
<1>7. AttemptsAreLimited'
  BY <1>6 DEF PhoneInv, AttemptsAreLimited
<1> QED
  BY <1>4, <1>5, <1>7 DEF PhoneInv

LEMMA IssueKeeps ==
  ASSUME PhoneInv, NEW r \in PhoneRequests, IssueOfficePhoneEnrollmentCode(r)
  PROVE  PhoneInv'
<1>1. /\ wanted[r].pc = "admitted"
      /\ wanted' = [wanted EXCEPT ![r].pc = "reserving", ![r].now = ticks]
      /\ UNCHANGED <<ticks, phones, managers, attempts, issued>>
  BY DEF IssueOfficePhoneEnrollmentCode
<1>2. /\ wanted' \in [PhoneRequests ->
                   [pc : {"none", "admitted", "reserving", "reserved", "answered",
                          "threw", "over"},
                    actor : Actors \union {NoActorYet}, now : 0..LastTick]]
      /\ wanted'[r].pc = "reserving"
      /\ \A q \in PhoneRequests : q # r => wanted'[q] = wanted[q]
  <2>1. PICK w : w = [[wanted[r] EXCEPT !.pc = "reserving"] EXCEPT !.now = ticks]
    OBVIOUS
  <2>2. /\ w \in [pc : {"none", "admitted", "reserving", "reserved", "answered",
                       "threw", "over"},
                 actor : Actors \union {NoActorYet}, now : 0..LastTick]
        /\ w.pc = "reserving"
    BY <2>1 DEF PhoneInv, PhoneTypeOK
  <2>3. wanted' = [wanted EXCEPT ![r] = w]
    BY <1>1, <2>1 DEF PhoneInv, PhoneTypeOK
  <2> QED
    BY <2>2, <2>3 DEF PhoneInv, PhoneTypeOK
<1>3. Reserved' = Reserved /\ r \notin Reserved
  BY <1>1 DEF Reserved, Never, PhoneInv, AttemptsAreReserved
<1>4. PhoneTypeOK'
  BY <1>1, <1>2 DEF PhoneInv, PhoneTypeOK, Never
<1>5. AttemptsAreReserved'
  BY <1>1, <1>2, <1>3 DEF PhoneInv, AttemptsAreReserved
<1>6. \A b \in Actors, t \in 0 .. LastTick : Made(b, t)' = Made(b, t)
  <2>1. \A q \in Reserved : wanted'[q] = wanted[q]
    BY <1>2, <1>3 DEF Reserved
  <2> QED
    BY <1>1, <1>3, <2>1 DEF Made
<1>7. AttemptsAreLimited'
  BY <1>6 DEF PhoneInv, AttemptsAreLimited
<1> QED
  BY <1>4, <1>5, <1>7 DEF PhoneInv

(* What a window holds once a request has reserved in it was recent for    *)
(* that request, and the request found fewer than the limit.               *)
LEMMA ReserveKeeps ==
  ASSUME PhoneInv, NEW r \in PhoneRequests, ReserveEnrollmentCodeAttempt(r)
  PROVE  PhoneInv'
<1>1. /\ wanted[r].pc = "reserving"
      /\ UNCHANGED <<ticks, phones, managers, issued>>
  BY DEF ReserveEnrollmentCodeAttempt
<1>2. CASE Cardinality(Recent(r)) < Limit
  <2>1. /\ attempts' = [attempts EXCEPT ![r].at = wanted[r].now] /\ Goes(r, "reserved")
    BY <1>2 DEF ReserveEnrollmentCodeAttempt
  <2>2. /\ wanted' \in [PhoneRequests ->
                   [pc : {"none", "admitted", "reserving", "reserved", "answered",
                          "threw", "over"},
                    actor : Actors \union {NoActorYet}, now : 0..LastTick]]
        /\ wanted'[r].pc = "reserved"
        /\ \A q \in PhoneRequests : q # r => wanted'[q] = wanted[q]
        /\ \A q \in PhoneRequests : wanted'[q].actor = wanted[q].actor
    BY <2>1 DEF PhoneInv, PhoneTypeOK, Goes
  <2>3. wanted[r].now \in 0 .. LastTick /\ wanted[r].now \in 0 .. Never /\ wanted[r].now # Never
    BY PhoneTypes
  <2>4. /\ attempts' \in [PhoneRequests ->
                         [at : 0..Never, results : SUBSET {"succeeded", "failed"}]]
        /\ attempts'[r].at = wanted[r].now
        /\ \A q \in PhoneRequests : q # r => attempts'[q].at = attempts[q].at
    BY <2>1, <2>3 DEF PhoneInv, PhoneTypeOK
  <2>5. Reserved' = Reserved \union {r} /\ r \notin Reserved
    BY <1>1, <2>3, <2>4 DEF Reserved, Never, PhoneInv, AttemptsAreReserved
  <2>6. PhoneTypeOK'
    BY <1>1, <2>2, <2>4 DEF PhoneInv, PhoneTypeOK, Never
  <2>7. AttemptsAreReserved'
    <3>1. IsFiniteSet(Reserved')
      BY <2>5, FS_AddElement DEF PhoneInv, AttemptsAreReserved
    <3> QED
      BY <1>1, <2>2, <2>5, <3>1 DEF PhoneInv, AttemptsAreReserved
  <2>8. ASSUME NEW a \in Actors, NEW t \in 0 .. LastTick
        PROVE  Cardinality(Made(a, t)') <= Limit
    <3>1. Cardinality(Made(a, t)) <= Limit
      BY DEF PhoneInv, AttemptsAreLimited
    <3>2. ASSUME NEW q \in PhoneRequests, q # r
          PROVE  q \in Made(a, t)' <=> q \in Made(a, t)
      BY <2>2, <2>4, <2>5, <3>2 DEF Made
    <3>3. Made(a, t) \subseteq Reserved /\ r \notin Made(a, t)
          /\ Made(a, t)' \subseteq PhoneRequests
      BY <2>5 DEF Made, Reserved
    <3>4. CASE r \in Made(a, t)'
      <4>1. /\ wanted[r].actor = a
            /\ t <= wanted[r].now /\ wanted[r].now <= t + Window
        BY <2>2, <2>3, <2>4, <3>4, PhoneTypes DEF Made
      <4>2. ASSUME NEW q \in Made(a, t) PROVE q \in Recent(r)
        <5>1. /\ q \in PhoneRequests /\ attempts[q].at # Never /\ wanted[q].actor = a
              /\ attempts[q].at \in t .. (t + Window)
          BY DEF Made, Reserved
        <5>2. attempts[q].at + Window >= wanted[r].now
          BY <2>3, <4>1, <5>1, PhoneTypes
        <5> QED
          BY <4>1, <5>1, <5>2 DEF Recent
      <4>3. IsFiniteSet(Recent(r))
        <5>1. Recent(r) \subseteq Reserved
          BY DEF Recent, Reserved
        <5> QED
          BY <5>1, FS_Subset DEF PhoneInv, AttemptsAreReserved
      <4>4. /\ IsFiniteSet(Made(a, t))
            /\ Cardinality(Made(a, t)) <= Cardinality(Recent(r))
            /\ Cardinality(Made(a, t)) \in Nat /\ Cardinality(Recent(r)) \in Nat
        BY <4>2, <4>3, FS_Subset, FS_CardinalityType
      <4>5. Made(a, t)' = Made(a, t) \union {r}
        BY <3>2, <3>3, <3>4 DEF Reserved
      <4>6. Cardinality(Made(a, t) \union {r}) = Cardinality(Made(a, t)) + 1
        BY <3>3, <4>4, FS_AddElement
      <4> QED
        BY <1>2, <4>4, <4>5, <4>6, PhoneTypes
    <3>5. CASE r \notin Made(a, t)'
      <4>1. Made(a, t)' = Made(a, t)
        BY <3>2, <3>3, <3>5 DEF Reserved
      <4> QED
        BY <3>1, <4>1
    <3> QED
      BY <3>4, <3>5
  <2>9. AttemptsAreLimited'
    BY <2>8 DEF AttemptsAreLimited
  <2> QED
    BY <2>6, <2>7, <2>9 DEF PhoneInv
<1>3. CASE ~(Cardinality(Recent(r)) < Limit)
  <2>1. Goes(r, "over") /\ UNCHANGED attempts
    BY <1>3 DEF ReserveEnrollmentCodeAttempt
  <2>2. PhoneTypeOK /\ issued' \subseteq Reserved
    BY <1>1 DEF PhoneInv, AttemptsAreReserved
  <2> QED
    BY <1>1, <2>1, <2>2, RequestGoes DEF PhoneTypeOK
<1> QED
  BY <1>2, <1>3

(* The routes that change a phone, ask the gateway, record or die.         *)
LEMMA OtherRoutesKeep ==
  ASSUME PhoneInv, NEW r \in PhoneRequests,
         \/ \E p \in Phones : \/ CreateOfficePhone(r, p)
                              \/ \E state \in {"active", "inactive"} :
                                   UpdateOfficePhoneStatus(r, p, state)
                              \/ IssueOfficePhoneSigningKey(r, p)
         \/ AskGateway(r) \/ RecordEnrollmentCodeResult(r) \/ PhoneRequestDies(r)
  PROVE  PhoneInv'
<1>0. PhoneTypeOK /\ issued \subseteq Reserved
  BY DEF PhoneInv, AttemptsAreReserved
<1>1. ASSUME NEW p \in Phones,
             \/ CreateOfficePhone(r, p)
             \/ \E state \in {"active", "inactive"} : UpdateOfficePhoneStatus(r, p, state)
             \/ IssueOfficePhoneSigningKey(r, p)
      PROVE  PhoneInv'
  <2>1. Goes(r, "over") /\ UNCHANGED <<ticks, managers, attempts, issued>>
    BY <1>1 DEF CreateOfficePhone, UpdateOfficePhoneStatus, IssueOfficePhoneSigningKey
  <2>2. phones' \in [Phones -> [state : {"none", "active", "inactive"}, key : 0..MaxKey]]
    <3>1. CASE CreateOfficePhone(r, p)
      BY <1>0, <3>1 DEF CreateOfficePhone, PhoneTypeOK
    <3>2. ASSUME NEW state \in {"active", "inactive"}, UpdateOfficePhoneStatus(r, p, state)
          PROVE  phones' \in [Phones -> [state : {"none", "active", "inactive"},
                                         key : 0..MaxKey]]
      BY <1>0, <3>2 DEF UpdateOfficePhoneStatus, PhoneTypeOK
    <3>3. CASE IssueOfficePhoneSigningKey(r, p)
      <4>1. phones[p].key + 1 \in 0 .. MaxKey
        BY <1>0, <3>3, PhoneAssumption DEF IssueOfficePhoneSigningKey, PhoneTypeOK
      <4> QED
        BY <1>0, <3>3, <4>1 DEF IssueOfficePhoneSigningKey, PhoneTypeOK
    <3> QED
      BY <1>1, <3>1, <3>2, <3>3
  <2> QED
    BY <1>0, <2>1, <2>2, RequestGoes DEF PhoneTypeOK
<1>2. CASE AskGateway(r)
  <2>1. r \in Reserved /\ UNCHANGED <<ticks, phones, managers, attempts>>
    BY <1>2 DEF AskGateway, PhoneInv, AttemptsAreReserved
  <2>2. PICK pc \in {"answered", "threw"} : Goes(r, pc)
    BY <1>2 DEF AskGateway
  <2>3. issued' \subseteq Reserved
    BY <1>0, <1>2, <2>1 DEF AskGateway
  <2> QED
    BY <1>0, <2>1, <2>2, <2>3, RequestGoes DEF PhoneTypeOK
<1>3. CASE RecordEnrollmentCodeResult(r)
  <2>1. r \in Reserved /\ UNCHANGED <<ticks, phones, managers, issued>>
    BY <1>3 DEF RecordEnrollmentCodeResult, PhoneInv, AttemptsAreReserved
  <2>2. PICK pc \in {"over", "threw"} : Goes(r, pc)
    BY <1>3 DEF RecordEnrollmentCodeResult
  <2>3. \/ UNCHANGED attempts
        \/ \E x \in {"succeeded", "failed"} :
             attempts' = [attempts EXCEPT ![r].results = @ \union {x}]
    BY <1>3 DEF RecordEnrollmentCodeResult
  <2>4. /\ attempts' \in [PhoneRequests ->
                           [at : 0..Never, results : SUBSET {"succeeded", "failed"}]]
        /\ \A q \in PhoneRequests : attempts'[q].at = attempts[q].at
    <3>1. ASSUME NEW x \in {"succeeded", "failed"},
                 attempts' = [attempts EXCEPT ![r].results = @ \union {x}]
          PROVE  /\ attempts' \in [PhoneRequests ->
                             [at : 0..Never, results : SUBSET {"succeeded", "failed"}]]
                 /\ \A q \in PhoneRequests : attempts'[q].at = attempts[q].at
      BY <1>0, <3>1 DEF PhoneTypeOK
    <3> QED
      BY <1>0, <2>3, <3>1 DEF PhoneTypeOK
  <2> QED
    BY <1>0, <2>1, <2>2, <2>4, RequestGoes DEF PhoneTypeOK
<1>4. CASE PhoneRequestDies(r)
  <2>1. Goes(r, "over") /\ UNCHANGED <<ticks, phones, managers, attempts, issued>>
    BY <1>4 DEF PhoneRequestDies
  <2> QED
    BY <1>0, <2>1, RequestGoes DEF PhoneTypeOK
<1> QED
  BY <1>1, <1>2, <1>3, <1>4

LEMMA StepPhoneInv == PhoneInv /\ [PhoneNext]_phoneVars => PhoneInv'
<1> SUFFICES ASSUME PhoneInv, [PhoneNext]_phoneVars PROVE PhoneInv'
  OBVIOUS
<1>1. ASSUME UNCHANGED <<wanted, attempts, issued, phones>>, ticks' \in 0 .. LastTick,
             managers' \subseteq Actors
      PROVE  PhoneInv'
  BY <1>1 DEF PhoneInv, PhoneTypeOK, AttemptsAreReserved, AttemptsAreLimited, Reserved, Made,
     Never
<1>2. ASSUME NEW r \in PhoneRequests, NEW a \in Actors, AdmitPhoneRequest(r, a) PROVE PhoneInv'
  BY <1>2, AdmitKeeps
<1>3. ASSUME NEW r \in PhoneRequests, IssueOfficePhoneEnrollmentCode(r) PROVE PhoneInv'
  BY <1>3, IssueKeeps
<1>4. ASSUME NEW r \in PhoneRequests, ReserveEnrollmentCodeAttempt(r) PROVE PhoneInv'
  BY <1>4, ReserveKeeps
<1>5. ASSUME NEW r \in PhoneRequests,
             \/ \E p \in Phones : \/ CreateOfficePhone(r, p)
                                  \/ \E state \in {"active", "inactive"} :
                                       UpdateOfficePhoneStatus(r, p, state)
                                  \/ IssueOfficePhoneSigningKey(r, p)
             \/ AskGateway(r) \/ RecordEnrollmentCodeResult(r) \/ PhoneRequestDies(r)
      PROVE  PhoneInv'
  BY <1>5, OtherRoutesKeep
<1>6. ASSUME NEW a \in Actors, ManagersChange(a) PROVE PhoneInv'
  BY <1>1, <1>6 DEF ManagersChange, PhoneInv, PhoneTypeOK
<1>7. CASE TimeGoesOn
  BY <1>1, <1>7, PhoneTypes DEF TimeGoesOn, PhoneInv, PhoneTypeOK
<1>8. CASE UNCHANGED phoneVars
  BY <1>1, <1>8 DEF phoneVars, PhoneInv, PhoneTypeOK
<1> QED
  BY <1>2, <1>3, <1>4, <1>5, <1>6, <1>7, <1>8 DEF PhoneNext

(* Attempts are reserved before anything is issued, and no window holds    *)
(* more of one actor than the limit, issued or not.                        *)
THEOREM PhoneInvariant == PhoneSpec => []PhoneInv
<1> QED
  BY InitPhoneInv, StepPhoneInv, PTL DEF PhoneSpec

(* No member gets more codes in any window than the limit, for any number  *)
(* of requests and whatever the order in which they reserve.               *)
THEOREM CodesAreLimited == PhoneSpec => []EnrollmentIsLimited
<1>1. PhoneInv => EnrollmentIsLimited
  <2> SUFFICES ASSUME PhoneInv, NEW a \in Actors, NEW t \in 0 .. LastTick
               PROVE  Cardinality({r \in issued : /\ wanted[r].actor = a
                                                  /\ attempts[r].at \in t..(t + Window)})
                      <= Limit
    BY DEF EnrollmentIsLimited
  <2> DEFINE S == {r \in issued : /\ wanted[r].actor = a
                                  /\ attempts[r].at \in t..(t + Window)}
  <2>1. S \subseteq Made(a, t) /\ Made(a, t) \subseteq Reserved
    BY DEF Made, PhoneInv, AttemptsAreReserved
  <2>2. IsFiniteSet(Made(a, t))
    BY <2>1, FS_Subset DEF PhoneInv, AttemptsAreReserved
  <2>3. /\ Cardinality(S) <= Cardinality(Made(a, t))
        /\ Cardinality(S) \in Nat /\ Cardinality(Made(a, t)) \in Nat
    BY <2>1, <2>2, FS_Subset, FS_CardinalityType
  <2>4. Cardinality(Made(a, t)) <= Limit /\ Limit \in Nat
    BY PhoneAssumption DEF PhoneInv, AttemptsAreLimited
  <2> QED
    BY <2>3, <2>4
<1> QED
  BY <1>1, PhoneInvariant, PTL

-----------------------------------------------------------------------------
(***************************************************************************)
(* MmsHeaders.                                                             *)
(***************************************************************************)
KeysAreUnique(rows) == \A x, y \in rows : x.key = y.key => x = y

(* mo_key is the key of the tables, and of what is read from them; the     *)
(* headers are finitely many, so that a run comes to an end.               *)
RowsAreKeyed ==
  /\ IsFiniteSet(pending) /\ KeysAreUnique(pending) /\ KeysAreUnique(downloaded)
  /\ \A p \in Promoters :
       /\ IsFiniteSet(promoter[p].headers)
       /\ KeysAreUnique(promoter[p].headers) /\ KeysAreUnique(promoter[p].downloads)

HeaderInv ==
  /\ HeaderTypeOK
  /\ RowsAreKeyed
  /\ HeadersAreAccountedFor
LEMMA LeastNatural ==
  ASSUME NEW S \in SUBSET Nat, S # {}
  PROVE  \E m \in S : \A n \in S : m <= n
<1>1. \E m \in S : \A n \in S : ~(<<n, m>> \in OpToRel(<, Nat))
  BY NatLessThanWellFounded, WFMin
<1>2. PICK m \in S : \A n \in S : ~(<<n, m>> \in OpToRel(<, Nat))
  BY <1>1
<1>3. \A n \in S : ~(n < m)
  BY <1>2 DEF OpToRel
<1> QED
  BY <1>3

LEMMA TicksAreNaturals == Ticks \subseteq Nat /\ 0 \in Ticks /\ MaxNow \in Nat /\ Wait \in Nat
BY HeaderAssumption DEF Ticks

(* Rows with keys of their own have an earliest one.                       *)
LEMMA EarliestIsOne ==
  ASSUME NEW S, S # {}, \A x \in S : x.at \in Nat /\ x.key \in Nat, KeysAreUnique(S)
  PROVE  Earliest(S) \in S
<1>1. PICK m \in {x.at : x \in S} : \A n \in {x.at : x \in S} : m <= n
  <2>1. {x.at : x \in S} \in SUBSET Nat /\ {x.at : x \in S} # {}
    OBVIOUS
  <2> QED
    BY <2>1, LeastNatural
<1> DEFINE K == {x.key : x \in {y \in S : y.at = m}}
<1>2. PICK k \in K : \A n \in K : k <= n
  <2>1. K \in SUBSET Nat /\ K # {}
    BY <1>1
  <2> QED
    BY <2>1, LeastNatural
<1>3. PICK x \in S : x.at = m /\ x.key = k
  BY <1>2
<1>4. ASSUME NEW y \in S \ {x} PROVE Earlier(x, y)
  <2>1. y.at \in Nat /\ m <= y.at /\ x.at \in Nat /\ x.key \in Nat /\ y.key \in Nat
    BY <1>1, <1>4
  <2>2. y.key # x.key
    BY <1>4 DEF KeysAreUnique
  <2>3. y.at = m => k <= y.key
    BY <1>2, <1>4
  <2> QED
    BY <1>3, <2>1, <2>2, <2>3 DEF Earlier
<1>5. \E z \in S : \A y \in S \ {z} : Earlier(z, y)
  BY <1>4
<1> QED
  BY <1>5 DEF Earliest

-----------------------------------------------------------------------------
(* What a run has made of its rows so far: pairs of rows that are no       *)
(* longer left, one to one.                                                *)
OneToOne(pairs) == \A x, y \in pairs : x[1] = y[1] <=> x[2] = y[2]

Groups(hs, ds) ==
  [headers : SUBSET hs, downloads : SUBSET ds, pairs : SUBSET (Downloads \X Headers)]

IsGroup(g, hs, ds) ==
  /\ g \in Groups(hs, ds)
  /\ OneToOne(g.pairs)
  /\ \A pair \in g.pairs : /\ \E h \in hs \ g.headers : h.key = pair[2]
                           /\ \E d \in ds \ g.downloads : d.key = pair[1]

LEMMA MatchKeepsGroup ==
  ASSUME NEW hs \in SUBSET HeaderRows, KeysAreUnique(hs),
         NEW ds \in SUBSET DownloadRows, KeysAreUnique(ds),
         NEW g, IsGroup(g, hs, ds), g.headers # {}
  PROVE  /\ IsGroup(MatchEarliest(g), hs, ds)
         /\ Earliest(g.headers) \in g.headers
         /\ MatchEarliest(g).headers = g.headers \ {Earliest(g.headers)}
<1>1. PICK h : h = Earliest(g.headers)
  OBVIOUS
<1>2. PICK recent : recent = {d \in g.downloads : d.at + Wait >= h.at}
  OBVIOUS
<1>3. PICK c : c = Earliest(recent)
  OBVIOUS
<1>4. PICK o : o = [g EXCEPT !.headers = g.headers \ {h}, !.downloads = recent]
  OBVIOUS
<1>5. MatchEarliest(g) = IF recent # {} /\ Near(h, c)
                         THEN [o EXCEPT !.downloads = recent \ {c},
                                        !.pairs = g.pairs \union {<<c.key, h.key>>}]
                         ELSE o
  BY <1>1, <1>2, <1>3, <1>4 DEF MatchEarliest
<1>6. /\ g \in Groups(hs, ds) /\ g.headers \subseteq hs /\ g.downloads \subseteq ds
      /\ g.pairs \subseteq Downloads \X Headers /\ recent \subseteq g.downloads
  BY <1>2 DEF IsGroup, Groups
<1>7. /\ \A x \in hs : x.at \in Nat /\ x.key \in Nat /\ x.key \in Headers
      /\ \A x \in ds : x.at \in Nat /\ x.key \in Nat /\ x.key \in Downloads
  BY TicksAreNaturals, HeaderAssumption DEF HeaderRows, DownloadRows
<1>8. h \in g.headers
  <2>1. KeysAreUnique(g.headers)
    BY <1>6 DEF KeysAreUnique
  <2> QED
    BY <1>1, <1>6, <1>7, <2>1, EarliestIsOne
<1>9. o \in Groups(hs, ds) /\ o.headers = g.headers \ {h} /\ o.downloads = recent
      /\ o.pairs = g.pairs
  BY <1>4, <1>6 DEF Groups
<1>10. CASE recent # {} /\ Near(h, c)
  <2>1. PICK n : n = [o EXCEPT !.downloads = recent \ {c},
                               !.pairs = g.pairs \union {<<c.key, h.key>>}]
    OBVIOUS
  <2>2. c \in recent
    <3>1. KeysAreUnique(recent)
      BY <1>6 DEF KeysAreUnique
    <3> QED
      BY <1>3, <1>6, <1>7, <1>10, <3>1, EarliestIsOne
  <2>3. /\ n.headers = g.headers \ {h} /\ n.downloads = recent \ {c}
        /\ n.pairs = g.pairs \union {<<c.key, h.key>>}
    BY <1>9, <2>1 DEF Groups
  <2>4. c \in ds /\ h \in hs /\ <<c.key, h.key>> \in Downloads \X Headers
    BY <1>6, <1>7, <1>8, <2>2
  <2>5. n \in Groups(hs, ds)
    BY <1>6, <1>9, <2>1, <2>4 DEF Groups
  <2>6. ASSUME NEW pair \in g.pairs
        PROVE  pair[1] # c.key /\ pair[2] # h.key
    <3>1. PICK x \in hs \ g.headers : x.key = pair[2]
      BY <2>6 DEF IsGroup
    <3>2. PICK y \in ds \ g.downloads : y.key = pair[1]
      BY <2>6 DEF IsGroup
    <3>3. x # h /\ y # c
      BY <1>6, <1>8, <2>2, <3>1, <3>2
    <3> QED
      BY <2>4, <3>1, <3>2, <3>3 DEF KeysAreUnique
  <2>7. OneToOne(n.pairs)
    <3>1. \A x \in n.pairs : x \in g.pairs \/ (x[1] = c.key /\ x[2] = h.key)
      BY <2>3
    <3> QED
      BY <2>6, <3>1 DEF OneToOne, IsGroup
  <2>8. ASSUME NEW pair \in n.pairs
        PROVE  /\ \E x \in hs \ n.headers : x.key = pair[2]
               /\ \E y \in ds \ n.downloads : y.key = pair[1]
    <3>1. CASE pair \in g.pairs
      BY <1>6, <2>3, <3>1 DEF IsGroup
    <3>2. CASE pair = <<c.key, h.key>>
      <4>1. h \in hs \ n.headers /\ c \in ds \ n.downloads
        BY <2>3, <2>4
      <4> QED
        BY <3>2, <4>1
    <3> QED
      BY <2>3, <3>1, <3>2
  <2> QED
    BY <1>1, <1>5, <1>8, <1>10, <2>1, <2>3, <2>5, <2>7, <2>8 DEF IsGroup
<1>11. CASE ~(recent # {} /\ Near(h, c))
  <2>1. IsGroup(o, hs, ds)
    BY <1>6, <1>9 DEF IsGroup
  <2> QED
    BY <1>1, <1>5, <1>8, <1>9, <1>11, <2>1
<1> QED
  BY <1>10, <1>11

(* The function that a run computes is there.                              *)
LEMMA GroupsExist ==
  ASSUME NEW hs, NEW ds, Cardinality(hs) \in Nat
  PROVE  GreedyGroups(hs, ds) =
           [n \in 0 .. Cardinality(hs) |->
              IF n = 0 THEN [headers |-> hs, downloads |-> ds, pairs |-> {}]
              ELSE MatchEarliest(GreedyGroups(hs, ds)[n - 1])]
<1>1. PICK start : start = [headers |-> hs, downloads |-> ds, pairs |-> {}]
  OBVIOUS
<1> DEFINE Upto(m, f) ==
      f = [n \in 0 .. m |-> IF n = 0 THEN start ELSE MatchEarliest(f[n - 1])]
           Bad == {m \in Nat : ~\E f : Upto(m, f)}
<1>2. Upto(0, [n \in 0 .. 0 |-> start])
  <2>1. \A n \in 0 .. 0 : n = 0
    OBVIOUS
  <2> QED
    BY <2>1
<1>3. ASSUME NEW m \in Nat, NEW f, Upto(m, f)
      PROVE  Upto(m + 1, [n \in 0 .. m + 1 |-> IF n <= m THEN f[n] ELSE MatchEarliest(f[m])])
  <2> DEFINE e == [n \in 0 .. m + 1 |-> IF n <= m THEN f[n] ELSE MatchEarliest(f[m])]
  <2>1. ASSUME NEW n \in 0 .. m + 1
        PROVE  e[n] = IF n = 0 THEN start ELSE MatchEarliest(e[n - 1])
    <3>1. CASE n = 0
      <4>1. 0 \in 0 .. m /\ e[n] = f[0]
        BY <3>1
      <4>2. f[0] = start
        BY <1>3, <4>1
      <4> QED
        BY <3>1, <4>1, <4>2
    <3>2. CASE n # 0 /\ n <= m
      <4>1. /\ n \in 0 .. m /\ n - 1 \in 0 .. m + 1 /\ n - 1 <= m
            /\ e[n] = f[n] /\ e[n - 1] = f[n - 1]
        BY <3>2
      <4>2. f[n] = MatchEarliest(f[n - 1])
        BY <1>3, <3>2, <4>1
      <4> QED
        BY <3>2, <4>1, <4>2
    <3>3. CASE n = m + 1
      <4>1. n - 1 = m /\ m \in 0 .. m + 1 /\ e[m] = f[m] /\ ~(n <= m) /\ n # 0
        BY <3>3
      <4>2. e[n] = MatchEarliest(f[m])
        BY <4>1
      <4> QED
        BY <4>1, <4>2
    <3> QED
      BY <3>1, <3>2, <3>3
  <2> HIDE DEF e
  <2>2. e = [n \in 0 .. m + 1 |-> e[n]]
    BY DEF e
  <2>3. e = [n \in 0 .. m + 1 |-> IF n = 0 THEN start ELSE MatchEarliest(e[n - 1])]
    BY <2>1, <2>2
  <2> QED
    BY <2>3 DEF e
<1> HIDE DEF Upto
<1>4. Bad = {}
  <2> SUFFICES ASSUME Bad # {} PROVE FALSE
    OBVIOUS
  <2>1. PICK m \in Bad : \A n \in Bad : m <= n
    BY LeastNatural
  <2>2. m # 0 /\ m \in Nat
    BY <1>2, <2>1
  <2>3. m - 1 \in Nat /\ m - 1 \notin Bad /\ (m - 1) + 1 = m
    BY <2>1, <2>2
  <2>4. PICK f : Upto(m - 1, f)
    BY <2>3
  <2>5. \E e : Upto(m, e)
    BY <1>3, <2>3, <2>4
  <2> QED
    BY <2>1, <2>5
<1>5. \E f : Upto(Cardinality(hs), f)
  BY <1>4
<1>6. Upto(Cardinality(hs), GreedyGroups(hs, ds))
  BY <1>1, <1>5 DEF Upto, GreedyGroups
<1> QED
  BY <1>1, <1>6 DEF Upto

(* However a run pairs the rows it has read, it pairs them one to one.     *)
LEMMA GreedyIsOneToOne ==
  ASSUME NEW hs \in SUBSET HeaderRows, KeysAreUnique(hs), IsFiniteSet(hs),
         NEW ds \in SUBSET DownloadRows, KeysAreUnique(ds)
  PROVE  /\ GreedyMmsMatches(hs, ds) \subseteq Downloads \X Headers
         /\ OneToOne(GreedyMmsMatches(hs, ds))
<1>1. PICK N : N = Cardinality(hs)
  OBVIOUS
<1>2. PICK G : G = GreedyGroups(hs, ds)
  OBVIOUS
<1>3. N \in Nat
  BY <1>1, FS_CardinalityType
<1>4. /\ G[0] = [headers |-> hs, downloads |-> ds, pairs |-> {}]
      /\ \A n \in 1 .. N : G[n] = MatchEarliest(G[n - 1])
  <2>1. G = [n \in 0 .. N |-> IF n = 0 THEN [headers |-> hs, downloads |-> ds, pairs |-> {}]
                              ELSE MatchEarliest(G[n - 1])]
    BY <1>1, <1>2, <1>3, GroupsExist
  <2>2. 0 \in 0 .. N /\ \A n \in 1 .. N : n \in 0 .. N /\ n # 0
    BY <1>3
  <2> QED
    BY <2>1, <2>2
<1> DEFINE Good(n) == /\ IsGroup(G[n], hs, ds) /\ IsFiniteSet(G[n].headers)
                      /\ Cardinality(G[n].headers) = N - n
           Bad == {n \in 0 .. N : ~Good(n)}
<1>5. Good(0)
  <2>1. G[0].headers = hs /\ G[0].downloads = ds /\ G[0].pairs = {}
    BY <1>4
  <2>2. G[0] \in Groups(hs, ds)
    BY <1>4 DEF Groups
  <2> QED
    BY <1>1, <1>3, <2>1, <2>2 DEF IsGroup, OneToOne
<1>6. ASSUME NEW n \in 1 .. N, Good(n - 1)
      PROVE  Good(n)
  <2>1. /\ IsGroup(G[n - 1], hs, ds) /\ IsFiniteSet(G[n - 1].headers)
        /\ Cardinality(G[n - 1].headers) = N - (n - 1)
    BY <1>6
  <2>2. G[n - 1].headers # {}
    BY <1>3, <2>1, FS_EmptySet
  <2>3. /\ IsGroup(G[n], hs, ds)
        /\ Earliest(G[n - 1].headers) \in G[n - 1].headers
        /\ G[n].headers = G[n - 1].headers \ {Earliest(G[n - 1].headers)}
    BY <1>4, <2>1, <2>2, MatchKeepsGroup
  <2>4. /\ IsFiniteSet(G[n].headers)
        /\ Cardinality(G[n].headers) = Cardinality(G[n - 1].headers) - 1
    <3>1. PICK S : S = G[n - 1].headers
      OBVIOUS
    <3>2. PICK e : e = Earliest(G[n - 1].headers)
      OBVIOUS
    <3>3. IsFiniteSet(S \ {e}) /\ Cardinality(S \ {e}) = Cardinality(S) - 1
      BY <2>1, <2>3, <3>1, <3>2, FS_RemoveElement
    <3> QED
      BY <2>3, <3>1, <3>2, <3>3
  <2> QED
    BY <1>3, <2>1, <2>3, <2>4
<1> HIDE DEF Good
<1>7. Bad = {}
  <2> SUFFICES ASSUME Bad # {} PROVE FALSE
    OBVIOUS
  <2>0. Bad \in SUBSET Nat
    BY <1>3
  <2>1. PICK m \in Bad : \A n \in Bad : m <= n
    BY <2>0, LeastNatural
  <2>2. m # 0 /\ m \in 0 .. N
    BY <1>5, <2>1
  <2>3. m \in 1 .. N /\ m - 1 \in 0 .. N /\ m - 1 \notin Bad
    BY <1>3, <2>1, <2>2
  <2>4. Good(m)
    BY <1>6, <2>3
  <2> QED
    BY <2>1, <2>4
<1>8. Good(N) /\ GreedyMmsMatches(hs, ds) = G[N].pairs
  <2>1. N \in 0 .. N
    BY <1>3
  <2> QED
    BY <1>1, <1>2, <1>7, <2>1 DEF GreedyMmsMatches
<1> QED
  BY <1>8 DEF Good, IsGroup, Groups

-----------------------------------------------------------------------------
LEMMA InitHeaderInv == HeaderInit => HeaderInv
<1> SUFFICES ASSUME HeaderInit PROVE HeaderInv
  OBVIOUS
<1>1. NoPromoter \in [pc : {"idle", "headers", "downloads"}, now : Ticks,
                      headers : SUBSET HeaderRows, downloads : SUBSET DownloadRows]
  BY TicksAreNaturals DEF NoPromoter
<1>2. HeaderTypeOK
  BY <1>1, TicksAreNaturals DEF HeaderInit, HeaderTypeOK
<1>3. RowsAreKeyed
  BY FS_EmptySet DEF HeaderInit, RowsAreKeyed, KeysAreUnique, NoPromoter
<1>4. HeadersAreAccountedFor
  BY DEF HeaderInit, HeadersAreAccountedFor, KeysOf, MatchedHeaders
<1> QED
  BY <1>2, <1>3, <1>4 DEF HeaderInv

(* A run reads, or ends without having written.                            *)
LEMMA RunReads ==
  ASSUME HeaderInv, NEW p \in Promoters, NEW x,
         promoter' = [promoter EXCEPT ![p] = x],
         x \in [pc : {"idle", "headers", "downloads"}, now : Ticks,
                headers : SUBSET HeaderRows, downloads : SUBSET DownloadRows],
         IsFiniteSet(x.headers), KeysAreUnique(x.headers), KeysAreUnique(x.downloads)
  PROVE  /\ promoter' \in [Promoters -> [pc : {"idle", "headers", "downloads"}, now : Ticks,
                                         headers : SUBSET HeaderRows,
                                         downloads : SUBSET DownloadRows]]
         /\ \A q \in Promoters :
              /\ IsFiniteSet(promoter'[q].headers)
              /\ KeysAreUnique(promoter'[q].headers)
              /\ KeysAreUnique(promoter'[q].downloads)
<1>1. promoter \in [Promoters -> [pc : {"idle", "headers", "downloads"}, now : Ticks,
                                  headers : SUBSET HeaderRows,
                                  downloads : SUBSET DownloadRows]]
  BY DEF HeaderInv, HeaderTypeOK
<1>2. \A q \in Promoters : promoter'[q] = IF q = p THEN x ELSE promoter[q]
  BY <1>1
<1> QED
  BY <1>1, <1>2 DEF HeaderInv, RowsAreKeyed

LEMMA RecordKeeps ==
  ASSUME HeaderInv, NEW h \in Headers, RecordPendingMmsHeader(h)
  PROVE  HeaderInv'
<1>1. /\ received' = received \union {h}
      /\ UNCHANGED <<now, downloaded, matches, missing, promoter>>
  BY DEF RecordPendingMmsHeader
<1>2. CASE h \in KeysOf(pending) \union MatchedHeaders
  <2>1. pending' = pending
    BY <1>2 DEF RecordPendingMmsHeader
  <2>2. HeaderTypeOK'
    BY <1>1, <2>1 DEF HeaderInv, HeaderTypeOK
  <2>3. RowsAreKeyed'
    BY <1>1, <2>1 DEF HeaderInv, RowsAreKeyed, KeysAreUnique
  <2>4. HeadersAreAccountedFor'
    BY <1>1, <1>2, <2>1 DEF HeaderInv, HeadersAreAccountedFor, KeysOf, MatchedHeaders
  <2> QED
    BY <2>2, <2>3, <2>4 DEF HeaderInv
<1>3. CASE h \notin KeysOf(pending) \union MatchedHeaders
  <2>0. PICK row : row = [key |-> h, at |-> now]
    OBVIOUS
  <2>1. pending' = pending \union {row} /\ row.key = h
    BY <1>3, <2>0 DEF RecordPendingMmsHeader
  <2>2. row \in HeaderRows
    BY <2>0 DEF HeaderRows, HeaderInv, HeaderTypeOK
  <2>3. HeaderTypeOK'
    BY <1>1, <2>1, <2>2 DEF HeaderInv, HeaderTypeOK
  <2>4. KeysAreUnique(pending)'
    BY <1>3, <2>1 DEF HeaderInv, RowsAreKeyed, KeysAreUnique, KeysOf
  <2>5. IsFiniteSet(pending')
    BY <2>1, FS_AddElement DEF HeaderInv, RowsAreKeyed
  <2>6. RowsAreKeyed'
    BY <1>1, <2>4, <2>5 DEF HeaderInv, RowsAreKeyed, KeysAreUnique
  <2>7. KeysOf(pending)' = KeysOf(pending) \union {h} /\ MatchedHeaders' = MatchedHeaders
    BY <1>1, <2>1 DEF KeysOf, MatchedHeaders
  <2>8. HeadersAreAccountedFor'
    BY <1>1, <1>3, <2>7 DEF HeaderInv, HeadersAreAccountedFor
  <2> QED
    BY <2>3, <2>6, <2>8 DEF HeaderInv
<1> QED
  BY <1>2, <1>3

LEMMA StoreDownloadKeeps ==
  ASSUME HeaderInv, NEW d \in Downloads, StoreDownload(d)
  PROVE  HeaderInv'
<1>1. PICK at \in 0 .. now : downloaded' = downloaded \union {[key |-> d, at |-> at]}
  BY DEF StoreDownload
<1>2. /\ d \notin KeysOf(downloaded)
      /\ UNCHANGED <<now, pending, matches, missing, promoter, received>>
  BY DEF StoreDownload
<1>3. PICK row : row = [key |-> d, at |-> at]
  OBVIOUS
<1>4. at \in Ticks
  BY HeaderAssumption DEF HeaderInv, HeaderTypeOK, Ticks
<1>5. row \in DownloadRows /\ row.key = d /\ downloaded' = downloaded \union {row}
  BY <1>1, <1>3, <1>4 DEF DownloadRows
<1>6. HeaderTypeOK'
  BY <1>2, <1>5 DEF HeaderInv, HeaderTypeOK
<1>7. KeysAreUnique(downloaded)'
  BY <1>2, <1>5 DEF HeaderInv, RowsAreKeyed, KeysAreUnique, KeysOf
<1>8. RowsAreKeyed'
  BY <1>2, <1>7 DEF HeaderInv, RowsAreKeyed, KeysAreUnique
<1>9. HeadersAreAccountedFor'
  BY <1>2 DEF HeaderInv, HeadersAreAccountedFor, KeysOf, MatchedHeaders
<1> QED
  BY <1>6, <1>8, <1>9 DEF HeaderInv

LEMMA HeadersAreRead ==
  ASSUME HeaderInv, NEW p \in Promoters,
         PendingMmsHeaders(p) \/ UnmatchedDownloadedMms(p) \/ PromotionFails(p)
  PROVE  HeaderInv'
<1>1. UNCHANGED <<now, pending, downloaded, matches, missing, received>>
  BY DEF PendingMmsHeaders, UnmatchedDownloadedMms, PromotionFails
<1>2. /\ pending \subseteq HeaderRows /\ downloaded \subseteq DownloadRows /\ now \in Ticks
      /\ promoter[p] \in [pc : {"idle", "headers", "downloads"}, now : Ticks,
                          headers : SUBSET HeaderRows, downloads : SUBSET DownloadRows]
      /\ IsFiniteSet(pending) /\ KeysAreUnique(pending) /\ KeysAreUnique(downloaded)
      /\ IsFiniteSet(promoter[p].headers) /\ KeysAreUnique(promoter[p].headers)
  BY DEF HeaderInv, HeaderTypeOK, RowsAreKeyed
<1>3. \E x : /\ promoter' = [promoter EXCEPT ![p] = x]
             /\ x \in [pc : {"idle", "headers", "downloads"}, now : Ticks,
                       headers : SUBSET HeaderRows, downloads : SUBSET DownloadRows]
             /\ IsFiniteSet(x.headers) /\ KeysAreUnique(x.headers)
             /\ KeysAreUnique(x.downloads)
  <2>1. CASE PendingMmsHeaders(p)
    <3>1. PICK x : x = [[[NoPromoter EXCEPT !.pc = "headers"] EXCEPT !.now = now]
                          EXCEPT !.headers = pending]
      OBVIOUS
    <3>2. promoter' = [promoter EXCEPT ![p] = x]
      BY <2>1, <3>1 DEF PendingMmsHeaders
    <3>3. /\ x \in [pc : {"idle", "headers", "downloads"}, now : Ticks,
                    headers : SUBSET HeaderRows, downloads : SUBSET DownloadRows]
          /\ x.headers = pending /\ x.downloads = {}
      BY <1>2, <3>1 DEF NoPromoter
    <3>4. KeysAreUnique(x.downloads)
      BY <3>3 DEF KeysAreUnique
    <3> QED
      BY <1>2, <3>2, <3>3, <3>4
  <2>2. CASE UnmatchedDownloadedMms(p)
    <3>0. PICK ds : ds = {d \in downloaded :
                          /\ d.key \notin MatchedDownloads
                          /\ \E h \in promoter[p].headers : d.at + Wait >= h.at
                          /\ \E h \in promoter[p].headers : d.at <= h.at + Wait}
      OBVIOUS
    <3>1. PICK x : x = [[promoter[p] EXCEPT !.pc = "downloads"] EXCEPT !.downloads = ds]
      OBVIOUS
    <3>2. promoter' = [promoter EXCEPT ![p] = x]
      BY <2>2, <3>0, <3>1 DEF UnmatchedDownloadedMms, HeaderInv, HeaderTypeOK
    <3>3. ds \subseteq downloaded
      BY <3>0
    <3>4. /\ x \in [pc : {"idle", "headers", "downloads"}, now : Ticks,
                    headers : SUBSET HeaderRows, downloads : SUBSET DownloadRows]
          /\ x.headers = promoter[p].headers /\ x.downloads = ds
      BY <1>2, <3>1, <3>3
    <3>5. KeysAreUnique(x.downloads)
      BY <1>2, <3>3, <3>4 DEF KeysAreUnique
    <3> QED
      BY <1>2, <3>2, <3>4, <3>5
  <2>3. CASE PromotionFails(p)
    <3>1. promoter' = [promoter EXCEPT ![p] = NoPromoter]
      BY <2>3 DEF PromotionFails
    <3>2. /\ NoPromoter \in [pc : {"idle", "headers", "downloads"}, now : Ticks,
                             headers : SUBSET HeaderRows, downloads : SUBSET DownloadRows]
          /\ NoPromoter.headers = {} /\ NoPromoter.downloads = {}
      BY TicksAreNaturals DEF NoPromoter
    <3>3. IsFiniteSet(NoPromoter.headers) /\ KeysAreUnique(NoPromoter.headers)
          /\ KeysAreUnique(NoPromoter.downloads)
      BY <3>2, FS_EmptySet DEF KeysAreUnique
    <3> QED
      BY <3>1, <3>2, <3>3
  <2> QED
    BY <2>1, <2>2, <2>3
<1>4. /\ promoter' \in [Promoters -> [pc : {"idle", "headers", "downloads"}, now : Ticks,
                                      headers : SUBSET HeaderRows,
                                      downloads : SUBSET DownloadRows]]
      /\ \A q \in Promoters :
           /\ IsFiniteSet(promoter'[q].headers)
           /\ KeysAreUnique(promoter'[q].headers)
           /\ KeysAreUnique(promoter'[q].downloads)
  BY <1>3, RunReads
<1>5. HeaderTypeOK'
  BY <1>1, <1>4 DEF HeaderInv, HeaderTypeOK
<1>6. RowsAreKeyed'
  BY <1>1, <1>4 DEF HeaderInv, RowsAreKeyed, KeysAreUnique
<1>7. HeadersAreAccountedFor'
  BY <1>1 DEF HeaderInv, HeadersAreAccountedFor, KeysOf, MatchedHeaders
<1> QED
  BY <1>5, <1>6, <1>7 DEF HeaderInv

(* What another run has paired in the meantime is paired no second time,   *)
(* and every header that leaves is paired or reported.                     *)
LEMMA PromoteKeeps ==
  ASSUME HeaderInv, NEW p \in Promoters, PromoteStaleMmsHeaders(p)
  PROVE  HeaderInv'
<1>1. PICK greedy : greedy = GreedyMmsMatches(promoter[p].headers, promoter[p].downloads)
  OBVIOUS
<1>2. PICK written : written = WrittenMatches(greedy)
  OBVIOUS
<1>3. PICK waiting : waiting = {h \in pending : h.key \notin Paired(greedy, written)}
  OBVIOUS
<1>4. /\ matches' = written
      /\ missing' = missing \union Missing(p, waiting, written)
      /\ pending' = {h \in waiting : \/ h.at + Wait > promoter[p].now
                                     \/ h.key \notin missing'}
      /\ promoter' = [promoter EXCEPT ![p] = NoPromoter]
      /\ UNCHANGED <<now, downloaded, received>>
  BY <1>1, <1>2, <1>3 DEF PromoteStaleMmsHeaders
<1>5. /\ HeaderTypeOK
      /\ promoter[p] \in [pc : {"idle", "headers", "downloads"}, now : Ticks,
                          headers : SUBSET HeaderRows, downloads : SUBSET DownloadRows]
      /\ IsFiniteSet(promoter[p].headers) /\ KeysAreUnique(promoter[p].headers)
      /\ KeysAreUnique(promoter[p].downloads)
      /\ IsFiniteSet(pending) /\ KeysAreUnique(pending)
  BY DEF HeaderInv, HeaderTypeOK, RowsAreKeyed
<1>6. greedy \subseteq Downloads \X Headers /\ OneToOne(greedy)
  BY <1>1, <1>5, GreedyIsOneToOne
<1>7. /\ \A x \in written :
           x \in matches \/ (x \in greedy /\ x[1] \notin MatchedDownloads
                                          /\ x[2] \notin MatchedHeaders)
      /\ matches \subseteq written
      /\ written \subseteq Downloads \X Headers
  BY <1>2, <1>5, <1>6 DEF WrittenMatches, HeaderTypeOK
<1>8. OneToOne(written)
  <2>1. \A x \in matches : x[1] \in MatchedDownloads /\ x[2] \in MatchedHeaders
    BY DEF MatchedDownloads, MatchedHeaders
  <2>2. OneToOne(matches)
    BY DEF HeaderInv, HeadersAreAccountedFor, OneToOne
  <2> QED
    BY <1>6, <1>7, <2>1, <2>2 DEF OneToOne
<1>9. waiting \subseteq pending /\ pending' \subseteq waiting
  BY <1>3, <1>4
<1>10. HeaderTypeOK'
  <2>1. Missing(p, waiting, written) \subseteq Headers
    BY <1>5, <1>9 DEF Missing, HeaderTypeOK, HeaderRows
  <2>2. /\ NoPromoter \in [pc : {"idle", "headers", "downloads"}, now : Ticks,
                           headers : SUBSET HeaderRows, downloads : SUBSET DownloadRows]
    BY TicksAreNaturals DEF NoPromoter
  <2> QED
    BY <1>4, <1>5, <1>7, <1>9, <2>1, <2>2 DEF HeaderTypeOK
<1>11. RowsAreKeyed'
  <2>1. IsFiniteSet(pending') /\ KeysAreUnique(pending')
    BY <1>5, <1>9, FS_Subset DEF KeysAreUnique
  <2>2. NoPromoter.headers = {} /\ NoPromoter.downloads = {}
    BY DEF NoPromoter
  <2>3. \A q \in Promoters : promoter'[q] = IF q = p THEN NoPromoter ELSE promoter[q]
    BY <1>4, <1>5 DEF HeaderTypeOK
  <2>4. /\ IsFiniteSet(NoPromoter.headers) /\ KeysAreUnique(NoPromoter.headers)
        /\ KeysAreUnique(NoPromoter.downloads)
    BY <2>2, FS_EmptySet DEF KeysAreUnique
  <2>5. \A q \in Promoters : /\ IsFiniteSet(promoter'[q].headers)
                             /\ KeysAreUnique(promoter'[q].headers)
                             /\ KeysAreUnique(promoter'[q].downloads)
    BY <2>3, <2>4 DEF HeaderInv, RowsAreKeyed
  <2>6. KeysAreUnique(downloaded')
    BY <1>4 DEF HeaderInv, RowsAreKeyed
  <2> QED
    BY <2>1, <2>5, <2>6 DEF RowsAreKeyed, KeysAreUnique
<1>12. HeadersAreAccountedFor'
  <2>1. OneToOne(matches')
    BY <1>4, <1>8
  <2>2. MatchedHeaders' = {pair[2] : pair \in written}
    BY <1>4 DEF MatchedHeaders
  <2>3. ASSUME NEW k \in received'
        PROVE  k \in KeysOf(pending)' \union MatchedHeaders' \union missing'
    <3>1. k \in KeysOf(pending) \union MatchedHeaders \union missing
      BY <1>4 DEF HeaderInv, HeadersAreAccountedFor
    <3>2. CASE k \in KeysOf(pending)
      <4>1. PICK h \in pending : h.key = k
        BY <3>2 DEF KeysOf
      <4>2. CASE k \in Paired(greedy, written)
        BY <2>2, <4>2 DEF Paired
      <4>3. CASE k \notin Paired(greedy, written)
        <5>1. h \in pending' \/ k \in missing'
          BY <1>3, <1>4, <4>1, <4>3
        <5> QED
          BY <4>1, <5>1 DEF KeysOf
      <4> QED
        BY <4>2, <4>3
    <3>3. CASE k \in MatchedHeaders
      BY <1>7, <2>2, <3>3 DEF MatchedHeaders
    <3>4. CASE k \in missing
      BY <1>4, <3>4
    <3> QED
      BY <3>1, <3>2, <3>3, <3>4
  <2>4. ASSUME NEW h \in pending'
        PROVE  h.key \notin MatchedHeaders'
    <3>1. h \in pending /\ h.key \notin Paired(greedy, written)
      BY <1>3, <1>9, <2>4
    <3>2. h.key \notin MatchedHeaders
      BY <3>1 DEF HeaderInv, HeadersAreAccountedFor, KeysOf
    <3>3. ASSUME NEW x \in written, x[2] = h.key PROVE FALSE
      <4>1. CASE x \in matches
        BY <3>2, <3>3, <4>1 DEF MatchedHeaders
      <4>2. CASE x \in greedy
        BY <3>1, <3>3, <4>2 DEF Paired
      <4> QED
        BY <1>7, <4>1, <4>2
    <3> QED
      BY <2>2, <3>3
  <2>5. KeysOf(pending)' \intersect MatchedHeaders' = {}
    BY <2>4 DEF KeysOf
  <2> QED
    BY <2>1, <2>3, <2>5 DEF HeadersAreAccountedFor, OneToOne
<1> QED
  BY <1>10, <1>11, <1>12 DEF HeaderInv

LEMMA StepHeaderInv == HeaderInv /\ [HeaderNext]_headerVars => HeaderInv'
<1> SUFFICES ASSUME HeaderInv, [HeaderNext]_headerVars PROVE HeaderInv'
  OBVIOUS
<1>1. ASSUME NEW h \in Headers, RecordPendingMmsHeader(h) PROVE HeaderInv'
  BY <1>1, RecordKeeps
<1>2. ASSUME NEW d \in Downloads, StoreDownload(d) PROVE HeaderInv'
  BY <1>2, StoreDownloadKeeps
<1>3. ASSUME now' \in Ticks,
             UNCHANGED <<pending, downloaded, matches, missing, promoter, received>>
      PROVE  HeaderInv'
  BY <1>3 DEF HeaderInv, HeaderTypeOK, RowsAreKeyed, KeysAreUnique, HeadersAreAccountedFor,
     KeysOf, MatchedHeaders
<1>4. CASE TimePasses
  <2>1. now' \in Ticks
    BY <1>4, HeaderAssumption DEF TimePasses, HeaderInv, HeaderTypeOK, Ticks
  <2> QED
    BY <1>3, <1>4, <2>1 DEF TimePasses
<1>5. ASSUME NEW p \in Promoters,
             PendingMmsHeaders(p) \/ UnmatchedDownloadedMms(p) \/ PromotionFails(p)
      PROVE  HeaderInv'
  BY <1>5, HeadersAreRead
<1>6. ASSUME NEW p \in Promoters, PromoteStaleMmsHeaders(p) PROVE HeaderInv'
  BY <1>6, PromoteKeeps
<1>7. CASE UNCHANGED headerVars
  BY <1>3, <1>7 DEF headerVars, HeaderInv, HeaderTypeOK
<1> QED
  BY <1>1, <1>2, <1>4, <1>5, <1>6, <1>7 DEF HeaderNext

(* The tables have one row for a key, and the ledger is one to one.        *)
THEOREM HeaderInvariant == HeaderSpec => []HeaderInv
<1> QED
  BY InitHeaderInv, StepHeaderInv, PTL DEF HeaderSpec

(* Every acknowledged header waits, is paired with one delivery of its     *)
(* own, or is reported, whatever runs overlap (promoteStaleMmsHeaders).    *)
THEOREM HeadersAccountedFor == HeaderSpec => []HeadersAreAccountedFor
<1>1. HeaderInv => HeadersAreAccountedFor
  BY DEF HeaderInv
<1> QED
  BY <1>1, HeaderInvariant, PTL

(* No header is reported beside a delivery that nobody else has.           *)
THEOREM ReportedHaveNoDelivery == HeaderSpec => ReportedHeadersHaveNoDelivery
<1> DEFINE Reports ==
      \A h \in pending : h.key \in missing' \ missing =>
        \A d \in downloaded : Near(h, d) => \E pair \in matches' : pair[1] = d.key
<1>1. HeaderInv /\ [HeaderNext]_headerVars => [Reports]_headerVars
  <2> SUFFICES ASSUME HeaderInv, HeaderNext,
                      NEW h \in pending, h.key \in missing' \ missing,
                      NEW d \in downloaded, Near(h, d)
               PROVE  \E pair \in matches' : pair[1] = d.key
    OBVIOUS
  <2>1. missing' # missing
    OBVIOUS
  <2>2. PICK p \in Promoters : PromoteStaleMmsHeaders(p)
    BY <2>1 DEF HeaderNext, RecordPendingMmsHeader, StoreDownload, TimePasses,
       PendingMmsHeaders, UnmatchedDownloadedMms, PromotionFails
  <2>3. PICK greedy : greedy = GreedyMmsMatches(promoter[p].headers, promoter[p].downloads)
    OBVIOUS
  <2>4. PICK waiting : waiting =
          {x \in pending : x.key \notin Paired(greedy, WrittenMatches(greedy))}
    OBVIOUS
  <2>5. /\ matches' = WrittenMatches(greedy)
        /\ missing' = missing \union Missing(p, waiting, WrittenMatches(greedy))
    BY <2>2, <2>3, <2>4 DEF PromoteStaleMmsHeaders
  <2>6. h.key \in Missing(p, waiting, matches')
    BY <2>5
  <2>7. PICK x \in waiting :
          /\ x.key = h.key
          /\ \A e \in downloaded : Near(x, e) => \E pair \in matches' : pair[1] = e.key
    BY <2>6 DEF Missing
  <2>8. x = h
    BY <2>4, <2>7 DEF HeaderInv, RowsAreKeyed, KeysAreUnique
  <2> QED
    BY <2>7, <2>8
<1> QED
  BY <1>1, HeaderInvariant, PTL DEF HeaderSpec, ReportedHeadersHaveNoDelivery

-----------------------------------------------------------------------------
(* The variables of all four parts keep their types, whichever runs.       *)
THEOREM SharedTypeCorrect == SharedSpec => []SharedTypeOK
<1> DEFINE AllInv == OfficeInv /\ PhoneInv /\ TokenInv /\ HeaderInv
<1>1. SharedInit => AllInv
  BY InitOfficeInv, InitPhoneInv, InitTokenInv, InitHeaderInv DEF SharedInit
<1>2. AllInv /\ [SharedNext]_SharedVars => AllInv'
  <2>1. [SharedNext]_SharedVars =>
          /\ [OfficeNext]_officeVars /\ [PhoneNext]_phoneVars
          /\ [TokenNext]_tokenVars /\ [HeaderNext]_headerVars
    BY DEF SharedNext, SharedVars
  <2> QED
    BY <2>1, StepOfficeInv, StepPhoneInv, StepTokenInv, StepHeaderInv
<1>3. AllInv => SharedTypeOK
  BY DEF OfficeInv, PhoneInv, TokenInv, HeaderInv, SharedTypeOK
<1> QED
  BY <1>1, <1>2, <1>3, PTL DEF SharedSpec
=============================================================================
