---------------------------- MODULE MCSharedRows ----------------------------
(* Rows that requests, isolates and cron runs change at once, each on its  *)
(* own: the members and their sessions (Office), the phones                *)
(* (OfficePhones), the access token of LGU+ (TokenLease), the headers of   *)
(* MMS (MmsHeaders).  A behaviour is one of the part chosen at the start.  *)
EXTENDS Office, OfficePhones, TokenLease, MmsHeaders, TLC

CONSTANTS m1, m2, m3, a1, a2, a3, c1, c2, c3, s0, s1

VARIABLE part

SharedVars == <<officeVars, phoneVars, tokenVars, headerVars, part>>

(* The address of the third member may be that of two accounts.            *)
Mailboxes == {<<a1, m1>>, <<a2, m2>>, <<a3, m2>>}

(* The redirect of the second login arrives twice.                         *)
Redirects == [c \in Callbacks |-> IF c = c1 THEN s0 ELSE s1]

SharedInit ==
  /\ part \in {"office", "phones", "token", "headers"}
  /\ OfficeInit /\ PhoneInit /\ TokenInit /\ HeaderInit

SharedNext ==
  \/ part = "office" /\ OfficeNext
     /\ UNCHANGED <<phoneVars, tokenVars, headerVars, part>>
  \/ part = "phones" /\ PhoneNext
     /\ UNCHANGED <<officeVars, tokenVars, headerVars, part>>
  \/ part = "token" /\ TokenNext
     /\ UNCHANGED <<officeVars, phoneVars, headerVars, part>>
  \/ part = "headers" /\ HeaderNext
     /\ UNCHANGED <<officeVars, phoneVars, tokenVars, part>>

SharedSpec == SharedInit /\ [][SharedNext]_SharedVars

(* Every variable of the four modules stays in its type.                   *)
SharedTypeOK == OfficeTypeOK /\ PhoneTypeOK /\ TokenTypeOK /\ HeaderTypeOK

SharedSymmetry == Permutations(Requests)
=============================================================================
