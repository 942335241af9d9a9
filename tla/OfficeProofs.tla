----------------------------- MODULE OfficeProofs -----------------------------
(***************************************************************************)
(* Proofs about Office for any team, any number of requests and logins.    *)
(***************************************************************************)
EXTENDS Office, TLAPS

UsersAreUsers == users \in [Members -> Users]

(* Nobody is an administrator before being invited.                        *)
TheUninvitedAreStaff ==
  \A m \in Members : users[m].status = "none" => users[m].role = "staff"

(* From the moment a login has found its member, both are known.           *)
LoginsKnowTheirMember ==
  \A c \in Callbacks :
    callback[c].pc \in {"candidate", "inactive", "claimed"}
    => callback[c].account \in Accounts /\ callback[c].member \in Members

(* A login that has claimed its member did so with the member's account.   *)
ClaimsAreTheAccounts ==
  \A c \in Callbacks :
    callback[c].pc = "claimed" => users[callback[c].member].sub = callback[c].account

(* What a session was made of.                                             *)
SessionsAreOfLogins ==
  \A c \in Callbacks :
    sessions[c] # Nobody =>
      /\ callback[c].pc = "over"
      /\ callback[c].account \in Accounts /\ callback[c].member \in Members
      /\ sessions[c] = callback[c].member
      /\ users[callback[c].member].sub = callback[c].account

OfficeInv ==
  /\ OfficeTypeOK
  /\ AnActiveAdministratorRemains
  /\ TheUninvitedAreStaff
  /\ LoginsKnowTheirMember
  /\ ClaimsAreTheAccounts
  /\ SessionsAreOfLogins

-----------------------------------------------------------------------------
LEMMA InitOfficeInv == OfficeInit => OfficeInv
<1> SUFFICES ASSUME OfficeInit PROVE OfficeInv
  OBVIOUS
<1> USE OfficeAssumption
<1>0. PICK a \in Accounts :
        /\ users = [m \in Members |->
                      IF m = Founder
                      THEN [role |-> "admin", status |-> "active", sub |-> a]
                      ELSE [role |-> "staff", status |-> "none", sub |-> Nobody]]
        /\ callback = [c \in Callbacks |->
                         IF c = SignedIn
                         THEN [pc |-> "over", account |-> a, member |-> Founder]
                         ELSE NoCallback]
  BY DEF OfficeInit
<1>1. oauth \in [States -> {"none", "stored", "expired", "consumed"}]
  BY DEF OfficeInit
<1>2. sessions = [c \in Callbacks |-> IF c = SignedIn THEN Founder ELSE Nobody]
  BY DEF OfficeInit
<1>3. act \in [Requests -> [actor : Members \union {Nobody}, role : Roles]]
  BY DEF OfficeInit, NoActor, Roles
<1>4. users \in [Members -> Users]
  BY <1>0 DEF Users, Roles, MemberStatuses
<1>5. callback \in [Callbacks -> CallbackStates]
  BY <1>0 DEF CallbackStates, CallbackSteps, NoCallback
<1>6. OfficeTypeOK
  BY <1>1, <1>2, <1>3, <1>4, <1>5 DEF OfficeTypeOK
<1>7. AnActiveAdministratorRemains /\ TheUninvitedAreStaff
  BY <1>0 DEF AnActiveAdministratorRemains, TheUninvitedAreStaff
<1>8. LoginsKnowTheirMember /\ ClaimsAreTheAccounts /\ SessionsAreOfLogins
  BY <1>0, <1>2 DEF LoginsKnowTheirMember, ClaimsAreTheAccounts, SessionsAreOfLogins, NoCallback
<1> QED
  BY <1>6, <1>7, <1>8 DEF OfficeInv

LEMMA Typed ==
  ASSUME OfficeInv
  PROVE  /\ users \in [Members -> Users]
         /\ oauth \in [States -> {"none", "stored", "expired", "consumed"}]
         /\ callback \in [Callbacks -> CallbackStates]
         /\ sessions \in [Callbacks -> Members \union {Nobody}]
         /\ act \in [Requests -> [actor : Members \union {Nobody}, role : Roles]]
         /\ Nobody \notin Members \union Accounts
BY OfficeAssumption DEF OfficeInv, OfficeTypeOK

(* A step that leaves every member's account, keeps an administrator and   *)
(* at most takes sessions away.                                            *)
LEMMA RouteKeeps ==
  ASSUME OfficeInv, users' \in [Members -> Users],
         act' \in [Requests -> [actor : Members \union {Nobody}, role : Roles]],
         AnActiveAdministratorRemains', TheUninvitedAreStaff',
         \A m \in Members : users'[m].sub = users[m].sub,
         sessions' \in [Callbacks -> Members \union {Nobody}],
         \A c \in Callbacks : sessions'[c] \in {sessions[c], Nobody},
         UNCHANGED <<oauth, callback>>
  PROVE  OfficeInv'
<1>1. OfficeTypeOK'
  BY Typed DEF OfficeTypeOK
<1>2. LoginsKnowTheirMember' /\ ClaimsAreTheAccounts'
  BY DEF OfficeInv, LoginsKnowTheirMember, ClaimsAreTheAccounts
<1>3. SessionsAreOfLogins'
  BY DEF OfficeInv, SessionsAreOfLogins
<1> QED
  BY <1>1, <1>2, <1>3 DEF OfficeInv

LEMMA EndsIsTyped ==
  ASSUME OfficeInv, NEW r \in Requests, Ends(r)
  PROVE  act' \in [Requests -> [actor : Members \union {Nobody}, role : Roles]]
BY Typed DEF Ends, NoActor, Roles

(* A step of a login that neither makes a session nor claims a member.     *)
LEMMA LoginMoves ==
  ASSUME OfficeInv, NEW c \in Callbacks, sessions[c] = Nobody,
         callback' \in [Callbacks -> CallbackStates],
         \A d \in Callbacks : d # c => callback'[d] = callback[d],
         oauth' \in [States -> {"none", "stored", "expired", "consumed"}],
         callback'[c].pc \in {"candidate", "inactive", "claimed"}
           => callback'[c].account \in Accounts /\ callback'[c].member \in Members,
         callback'[c].pc = "claimed"
           => users[callback'[c].member].sub = callback'[c].account,
         UNCHANGED <<users, sessions, act>>
  PROVE  OfficeInv'
<1>2. OfficeTypeOK' /\ AnActiveAdministratorRemains' /\ TheUninvitedAreStaff'
  BY Typed DEF OfficeInv, OfficeTypeOK, AnActiveAdministratorRemains, TheUninvitedAreStaff
<1>3. LoginsKnowTheirMember' /\ ClaimsAreTheAccounts'
  BY DEF OfficeInv, LoginsKnowTheirMember, ClaimsAreTheAccounts
<1>4. SessionsAreOfLogins'
  BY DEF OfficeInv, SessionsAreOfLogins
<1> QED
  BY <1>2, <1>3, <1>4 DEF OfficeInv

-----------------------------------------------------------------------------
(* Requests to the office routes.                                          *)
LEMMA InviteKeeps ==
  ASSUME OfficeInv, NEW r \in Requests, NEW m \in Members, NEW role \in Roles,
         InviteMember(r, m, role)
  PROVE  OfficeInv'
<1>1. CASE UNCHANGED users
  BY <1>1, Typed, EndsIsTyped, RouteKeeps
  DEF InviteMember, OfficeInv, AnActiveAdministratorRemains, TheUninvitedAreStaff
<1>2. CASE users[m].status = "none"
           /\ users' = [users EXCEPT ![m].role = role, ![m].status = "invited"]
  <2>1. /\ users' \in [Members -> Users]
        /\ users'[m].role = role /\ users'[m].status = "invited"
        /\ users'[m].sub = users[m].sub
        /\ \A o \in Members : o # m => users'[o] = users[o]
    BY <1>2, Typed DEF Users, MemberStatuses, Roles
  <2>2. AnActiveAdministratorRemains' /\ TheUninvitedAreStaff'
    BY <1>2, <2>1 DEF OfficeInv, AnActiveAdministratorRemains, TheUninvitedAreStaff
  <2> QED
    BY <2>1, <2>2, Typed, EndsIsTyped, RouteKeeps DEF InviteMember
<1> QED
  BY <1>1, <1>2 DEF InviteMember

LEMMA UpdateMemberKeeps ==
  ASSUME OfficeInv, NEW r \in Requests, NEW m \in Members, NEW role \in Roles,
         UpdateMember(r, m, role)
  PROVE  OfficeInv'
<1>1. CASE UNCHANGED users
  BY <1>1, Typed, EndsIsTyped, RouteKeeps
  DEF UpdateMember, OfficeInv, AnActiveAdministratorRemains, TheUninvitedAreStaff
<1>2. CASE /\ users[m].status # "none"
           /\ \/ users[m].role # "admin"
              \/ users[m].status # "active"
              \/ role = "admin"
              \/ AdministratorRemains(m)
           /\ users' = [users EXCEPT ![m].role = role]
  <2>1. /\ users' \in [Members -> Users]
        /\ users'[m].role = role /\ users'[m].status = users[m].status
        /\ users'[m].sub = users[m].sub
        /\ \A o \in Members : o # m => users'[o] = users[o]
    BY <1>2, Typed DEF Users
  <2>2. AnActiveAdministratorRemains'
    BY <1>2, <2>1 DEF OfficeInv, AnActiveAdministratorRemains, AdministratorRemains
  <2>3. TheUninvitedAreStaff'
    BY <1>2, <2>1 DEF OfficeInv, TheUninvitedAreStaff
  <2> QED
    BY <2>1, <2>2, <2>3, Typed, EndsIsTyped, RouteKeeps DEF UpdateMember
<1> QED
  BY <1>1, <1>2 DEF UpdateMember

LEMMA UpdateMemberStatusKeeps ==
  ASSUME OfficeInv, NEW r \in Requests, NEW m \in Members, NEW status \in {"active", "inactive"},
         UpdateMemberStatus(r, m, status)
  PROVE  OfficeInv'
<1>1. CASE UNCHANGED <<users, sessions>>
  BY <1>1, Typed, EndsIsTyped, RouteKeeps
  DEF UpdateMemberStatus, OfficeInv, AnActiveAdministratorRemains, TheUninvitedAreStaff
<1>2. CASE StatusMutationGuard(r, m, status)
  <2>0. users' = [users EXCEPT ![m].status = status]
    BY <1>2 DEF UpdateMemberStatus
  <2>1. /\ users' \in [Members -> Users]
        /\ users'[m].role = users[m].role /\ users'[m].status = status
        /\ users'[m].sub = users[m].sub
        /\ \A o \in Members : o # m => users'[o] = users[o]
    BY <2>0, Typed DEF Users, MemberStatuses
  <2>2. AnActiveAdministratorRemains'
    BY <1>2, <2>1
    DEF OfficeInv, AnActiveAdministratorRemains, AdministratorRemains, StatusMutationGuard
  <2>3. TheUninvitedAreStaff'
    BY <2>1 DEF OfficeInv, TheUninvitedAreStaff
  <2>4. /\ sessions' \in [Callbacks -> Members \union {Nobody}]
        /\ \A c \in Callbacks : sessions'[c] \in {sessions[c], Nobody}
    BY <1>2, Typed DEF UpdateMemberStatus
  <2> QED
    BY <2>1, <2>2, <2>3, <2>4, EndsIsTyped, RouteKeeps DEF UpdateMemberStatus
<1> QED
  BY <1>1, <1>2 DEF UpdateMemberStatus

LEMMA RouteStepKeeps ==
  ASSUME OfficeInv, NEW r \in Requests, RouteStep(r)
  PROVE  OfficeInv'
<1>1. ASSUME NEW c \in Callbacks, RequireSession(r, c) PROVE OfficeInv'
  <2>1. act' \in [Requests -> [actor : Members \union {Nobody}, role : Roles]]
    BY <1>1, Typed DEF RequireSession, Users
  <2> QED
    BY <1>1, <2>1, Typed, RouteKeeps
    DEF RequireSession, OfficeInv, AnActiveAdministratorRemains, TheUninvitedAreStaff
<1>2. CASE RequestRefused(r)
  BY <1>2, Typed, EndsIsTyped, RouteKeeps
  DEF RequestRefused, OfficeInv, AnActiveAdministratorRemains, TheUninvitedAreStaff
<1> QED
  BY <1>1, <1>2, InviteKeeps, UpdateMemberKeeps, UpdateMemberStatusKeeps DEF RouteStep

-----------------------------------------------------------------------------
(* Logins.                                                                 *)
(* A member's account is set once: a second login activates the member     *)
(* only if it is of the same account.                                      *)
LEMMA ActivateUserKeeps ==
  ASSUME OfficeInv, NEW c \in Callbacks, ActivateUser(c)
  PROVE  OfficeInv'
<1> DEFINE m == callback[c].member
           a == callback[c].account
<1>0. /\ callback[c].pc = "candidate" /\ a \in Accounts /\ m \in Members
      /\ sessions[c] = Nobody
  BY DEF ActivateUser, OfficeInv, LoginsKnowTheirMember, SessionsAreOfLogins
<1>1. CASE UNCHANGED users
  <2>1. PICK pc \in {"over", "inactive"} : callback' = [callback EXCEPT ![c].pc = pc]
    BY <1>0, <1>1, Typed DEF ActivateUser, Users
  <2>2. callback' \in [Callbacks -> CallbackStates] /\ callback'[c].pc = pc
        /\ callback'[c].account = a /\ callback'[c].member = m
        /\ \A d \in Callbacks : d # c => callback'[d] = callback[d]
    BY <2>1, Typed DEF CallbackStates, CallbackSteps
  <2> HIDE DEF a, m
  <2> QED
    BY <1>0, <1>1, <2>2, Typed, LoginMoves DEF ActivateUser
<1>2. CASE ~(UNCHANGED users)
  <2>1. /\ users[m].status = "invited" /\ users[m].sub \in {Nobody, a}
        /\ users' = [users EXCEPT ![m].status = "active", ![m].sub = a]
        /\ callback' = [callback EXCEPT ![c].pc = "claimed"]
        /\ UNCHANGED <<oauth, sessions, act>>
    BY <1>2 DEF ActivateUser
  <2>2. /\ users' \in [Members -> Users]
        /\ users'[m].role = users[m].role /\ users'[m].status = "active" /\ users'[m].sub = a
        /\ \A o \in Members : o # m => users'[o] = users[o]
    BY <1>0, <2>1, Typed DEF Users, MemberStatuses
  <2>3. /\ callback' \in [Callbacks -> CallbackStates]
        /\ callback'[c] = [pc |-> "claimed", account |-> a, member |-> m]
        /\ \A d \in Callbacks : d # c => callback'[d] = callback[d]
    BY <2>1, Typed DEF CallbackStates, CallbackSteps
  <2>4. \A o \in Members : users[o].sub # Nobody => users'[o].sub = users[o].sub
    BY <2>1, <2>2
  <2> HIDE DEF a, m
  <2>5. OfficeTypeOK'
    BY <2>1, <2>2, <2>3, Typed DEF OfficeTypeOK
  <2>6. AnActiveAdministratorRemains' /\ TheUninvitedAreStaff'
    BY <1>0, <2>1, <2>2 DEF OfficeInv, AnActiveAdministratorRemains, TheUninvitedAreStaff
  <2>7. LoginsKnowTheirMember'
    BY <1>0, <2>3 DEF OfficeInv, LoginsKnowTheirMember
  <2>8. ClaimsAreTheAccounts'
    <3> SUFFICES ASSUME NEW d \in Callbacks, callback'[d].pc = "claimed"
                 PROVE  users'[callback'[d].member].sub = callback'[d].account
      BY DEF ClaimsAreTheAccounts
    <3>1. CASE d = c
      BY <2>2, <2>3, <3>1
    <3>2. CASE d # c
      BY <2>3, <2>4, <3>2, Typed DEF OfficeInv, ClaimsAreTheAccounts, LoginsKnowTheirMember
    <3> QED
      BY <3>1, <3>2
  <2>9. SessionsAreOfLogins'
    <3> SUFFICES ASSUME NEW d \in Callbacks, sessions[d] # Nobody
                 PROVE  /\ callback'[d].pc = "over"
                        /\ callback'[d].account \in Accounts /\ callback'[d].member \in Members
                        /\ sessions[d] = callback'[d].member
                        /\ users'[callback'[d].member].sub = callback'[d].account
      BY <2>1 DEF SessionsAreOfLogins
    <3>1. d # c /\ callback'[d] = callback[d]
      BY <1>0, <2>3
    <3> QED
      BY <2>4, <3>1, Typed DEF OfficeInv, SessionsAreOfLogins
  <2> QED
    BY <2>5, <2>6, <2>7, <2>8, <2>9 DEF OfficeInv
<1> QED
  BY <1>1, <1>2

LEMMA CreateSessionKeeps ==
  ASSUME OfficeInv, NEW c \in Callbacks, CreateSession(c)
  PROVE  OfficeInv'
<1>0. /\ callback[c].pc = "claimed"
      /\ callback[c].account \in Accounts /\ callback[c].member \in Members
      /\ users[callback[c].member].sub = callback[c].account
  BY DEF CreateSession, OfficeInv, LoginsKnowTheirMember, ClaimsAreTheAccounts
<1>1. /\ callback' \in [Callbacks -> CallbackStates]
      /\ callback'[c].pc = "over" /\ callback'[c].account = callback[c].account
      /\ callback'[c].member = callback[c].member
      /\ \A d \in Callbacks : d # c => callback'[d] = callback[d]
  BY Typed DEF CreateSession, CallbackStates, CallbackSteps
<1>2. /\ sessions' \in [Callbacks -> Members \union {Nobody}]
      /\ sessions'[c] = callback[c].member
      /\ \A d \in Callbacks : d # c => sessions'[d] = sessions[d]
  BY <1>0, Typed DEF CreateSession
<1>3. UNCHANGED <<users, oauth, act>>
  BY DEF CreateSession
<1>4. OfficeTypeOK' /\ AnActiveAdministratorRemains' /\ TheUninvitedAreStaff'
  BY <1>1, <1>2, <1>3, Typed
  DEF OfficeInv, OfficeTypeOK, AnActiveAdministratorRemains, TheUninvitedAreStaff
<1>5. LoginsKnowTheirMember' /\ ClaimsAreTheAccounts'
  BY <1>1, <1>3, Typed DEF OfficeInv, LoginsKnowTheirMember, ClaimsAreTheAccounts
<1>6. SessionsAreOfLogins'
  BY <1>0, <1>1, <1>2, <1>3, Typed DEF OfficeInv, SessionsAreOfLogins
<1> QED
  BY <1>4, <1>5, <1>6 DEF OfficeInv

(* A login that goes on to another step, or ends.                          *)
LEMMA LoginGoesTo ==
  ASSUME OfficeInv, NEW c \in Callbacks, callback[c].pc # "over",
         NEW pc \in CallbackSteps, callback' = [callback EXCEPT ![c].pc = pc],
         oauth' \in [States -> {"none", "stored", "expired", "consumed"}],
         pc \in {"candidate", "inactive", "claimed"}
           => callback[c].account \in Accounts /\ callback[c].member \in Members,
         pc = "claimed" => users[callback[c].member].sub = callback[c].account,
         UNCHANGED <<users, sessions, act>>
  PROVE  OfficeInv'
<1>1. /\ callback' \in [Callbacks -> CallbackStates] /\ callback'[c].pc = pc
      /\ callback'[c].account = callback[c].account
      /\ callback'[c].member = callback[c].member
      /\ \A d \in Callbacks : d # c => callback'[d] = callback[d]
  BY Typed DEF CallbackStates
<1>2. sessions[c] = Nobody
  BY DEF OfficeInv, SessionsAreOfLogins
<1> QED
  BY <1>1, <1>2, LoginMoves

LEMMA LoginStepKeeps ==
  ASSUME OfficeInv, NEW c \in Callbacks, LoginStep(c)
  PROVE  OfficeInv'
<1> USE DEF CallbackSteps
<1>1. CASE ConsumeState(c)
  <2>1. PICK pc \in {"consumed", "over"} : callback' = [callback EXCEPT ![c].pc = pc]
    BY <1>1 DEF ConsumeState
  <2>2. oauth' \in [States -> {"none", "stored", "expired", "consumed"}]
    BY <1>1, Typed DEF ConsumeState
  <2>3. callback[c].pc # "over"
    BY <1>1 DEF ConsumeState, NoCallback
  <2> QED
    BY <1>1, <2>1, <2>2, <2>3, LoginGoesTo DEF ConsumeState
<1>2. ASSUME NEW a \in Accounts, NEW m \in Members, ReadCandidates(c, a, m) PROVE OfficeInv'
  <2>1. /\ callback' \in [Callbacks -> CallbackStates]
        /\ callback'[c].pc = "candidate" /\ callback'[c].account = a
        /\ callback'[c].member = m
        /\ \A d \in Callbacks : d # c => callback'[d] = callback[d]
    BY <1>2, Typed DEF ReadCandidates, CallbackStates
  <2>2. sessions[c] = Nobody
    BY <1>2 DEF ReadCandidates, OfficeInv, SessionsAreOfLogins
  <2> QED
    BY <1>2, <2>1, <2>2, Typed, LoginMoves DEF ReadCandidates
<1>3. CASE SelectActive(c)
  <2>1. PICK pc \in {"claimed", "over"} :
          /\ callback' = [callback EXCEPT ![c].pc = pc]
          /\ pc = "claimed" => users[callback[c].member].sub = callback[c].account
    BY <1>3 DEF SelectActive
  <2>2. callback[c].account \in Accounts /\ callback[c].member \in Members
    BY <1>3 DEF SelectActive, OfficeInv, LoginsKnowTheirMember
  <2>3. callback[c].pc # "over" /\ UNCHANGED <<users, oauth, sessions, act>>
    BY <1>3 DEF SelectActive
  <2> QED
    BY <2>1, <2>2, <2>3, Typed, LoginGoesTo
<1>4. CASE CallbackFails(c)
  <2>1. callback[c].pc # "over" /\ UNCHANGED <<users, oauth, sessions, act>>
        /\ callback' = [callback EXCEPT ![c].pc = "over"]
    BY <1>4 DEF CallbackFails
  <2> QED
    BY <2>1, Typed, LoginGoesTo
<1>5. CASE SessionEnds(c)
  <2>1. /\ sessions' \in [Callbacks -> Members \union {Nobody}]
        /\ \A d \in Callbacks : sessions'[d] \in {sessions[d], Nobody}
    BY <1>5, Typed DEF SessionEnds
  <2> QED
    BY <1>5, <2>1, Typed, RouteKeeps
    DEF SessionEnds, OfficeInv, AnActiveAdministratorRemains, TheUninvitedAreStaff
<1> QED
  BY <1>1, <1>2, <1>3, <1>4, <1>5, ActivateUserKeeps, CreateSessionKeeps DEF LoginStep

LEMMA StepOfficeInv == OfficeInv /\ [OfficeNext]_officeVars => OfficeInv'
<1> SUFFICES ASSUME OfficeInv, [OfficeNext]_officeVars PROVE OfficeInv'
  OBVIOUS
<1>1. ASSUME NEW s \in States, StartLogin(s) \/ StateExpires(s) PROVE OfficeInv'
  <2>1. /\ oauth' \in [States -> {"none", "stored", "expired", "consumed"}]
        /\ UNCHANGED <<users, callback, sessions, act>>
    BY <1>1, Typed DEF StartLogin, StateExpires
  <2> QED
    BY <2>1, Typed DEF OfficeInv, OfficeTypeOK, AnActiveAdministratorRemains,
       TheUninvitedAreStaff, LoginsKnowTheirMember, ClaimsAreTheAccounts, SessionsAreOfLogins
<1>2. CASE UNCHANGED officeVars
  BY <1>2 DEF officeVars, OfficeInv, OfficeTypeOK, AnActiveAdministratorRemains,
     TheUninvitedAreStaff, LoginsKnowTheirMember, ClaimsAreTheAccounts, SessionsAreOfLogins
<1> QED
  BY <1>1, <1>2, RouteStepKeeps, LoginStepKeeps DEF OfficeNext

-----------------------------------------------------------------------------
THEOREM OfficeInvariant == OfficeSpec => []OfficeInv
<1> QED
  BY InitOfficeInv, StepOfficeInv, PTL DEF OfficeSpec

(* However many demotions and deactivations are under way, an active       *)
(* administrator remains (updateMember, updateMemberStatus).               *)
THEOREM AnAdministratorRemains == OfficeSpec => []AnActiveAdministratorRemains
<1>1. OfficeInv => AnActiveAdministratorRemains
  BY DEF OfficeInv
<1> QED
  BY <1>1, OfficeInvariant, PTL

(* A session is one of the account its member is bound to (claimUser).     *)
THEOREM SessionsBelongToAccounts == OfficeSpec => []SessionsAreTheAccounts
<1>1. OfficeInv => SessionsAreTheAccounts
  BY DEF OfficeInv, SessionsAreOfLogins, SessionsAreTheAccounts
<1> QED
  BY <1>1, OfficeInvariant, PTL

(* Whoever makes or unmakes an administrator is one at that moment         *)
(* (inviteMember, updateMember and their actorPermissionGuard).            *)
THEOREM AdministratorsMakeAdministrators ==
  OfficeSpec => AdministratorsAreMadeByAdministrators
<1> DEFINE MadeByOne(m) ==
      \/ users'[m].role = users[m].role
      \/ "admin" \notin {users[m].role, users'[m].role}
      \/ \E r \in Requests :
           /\ act[r] # NoActor /\ act'[r] = NoActor
           /\ users[act[r].actor].role = "admin"
           /\ users[act[r].actor].status = "active"
<1>1. ASSUME OfficeInv, [OfficeNext]_officeVars, NEW m \in Members PROVE MadeByOne(m)
  <2>0. ASSUME NEW r \in Requests, Actor(r) # Nobody, Ends(r),
               Permitted(Actor(r), "team:manage-administrator")
                 \/ Permitted(Actor(r), "team:assign-administrator")
        PROVE  MadeByOne(m)
    BY <1>1, <2>0, Typed DEF Actor, Ends, NoActor, Permitted, PermissionRoles
  <2>1. ASSUME NEW r \in Requests, NEW o \in Members, NEW role \in Roles,
               InviteMember(r, o, role)
        PROVE  MadeByOne(m)
    <3>1. CASE users'[m].role = users[m].role
      BY <3>1
    <3>2. CASE users'[m].role # users[m].role
      <4>1. /\ users[o].status = "none" /\ m = o /\ users'[m].role = role
            /\ role = "admin" => Permitted(Actor(r), "team:assign-administrator")
        BY <1>1, <2>1, <3>2, Typed DEF InviteMember, Users
      <4>2. users[m].role = "staff"
        BY <1>1, <4>1 DEF OfficeInv, TheUninvitedAreStaff
      <4> QED
        BY <2>0, <2>1, <4>1, <4>2 DEF InviteMember, SessionPermits
    <3> QED
      BY <3>1, <3>2
  <2>2. ASSUME NEW r \in Requests, NEW o \in Members, NEW role \in Roles,
               UpdateMember(r, o, role)
        PROVE  MadeByOne(m)
    <3>1. CASE users'[m].role = users[m].role
      BY <3>1
    <3>2. CASE users'[m].role # users[m].role
      <4>1. /\ MayTouch(r, o) /\ m = o /\ users'[m].role = role
            /\ role = "admin" => Permitted(Actor(r), "team:assign-administrator")
        BY <1>1, <2>2, <3>2, Typed DEF UpdateMember, Users
      <4> QED
        BY <2>0, <2>2, <4>1 DEF UpdateMember, SessionPermits, MayTouch
    <3> QED
      BY <3>1, <3>2
  <2>3. ASSUME NEW o \in Members, NEW status, NEW sub,
               \/ users' = [users EXCEPT ![o].status = status]
               \/ users' = [users EXCEPT ![o].status = status, ![o].sub = sub]
        PROVE  users'[m].role = users[m].role
    <3>1. CASE m = o
      BY <1>1, <2>3, <3>1, Typed DEF Users
    <3>2. CASE m # o
      BY <1>1, <2>3, <3>2, Typed
    <3> QED
      BY <3>1, <3>2
  <2>4. ASSUME NEW r \in Requests, NEW o \in Members, NEW status \in {"active", "inactive"},
               UpdateMemberStatus(r, o, status)
        PROVE  users'[m].role = users[m].role
    BY <2>3, <2>4 DEF UpdateMemberStatus
  <2>5. ASSUME NEW c \in Callbacks, ActivateUser(c) PROVE users'[m].role = users[m].role
    <3>1. callback[c].member \in Members
      BY <1>1, <2>5 DEF ActivateUser, OfficeInv, LoginsKnowTheirMember
    <3> QED
      BY <2>3, <2>5, <3>1 DEF ActivateUser
  <2> QED
    BY <1>1, <2>1, <2>2, <2>4, <2>5
    DEF OfficeNext, officeVars, RouteStep, LoginStep, RequireSession, RequestRefused, StartLogin,
        StateExpires, ConsumeState, ReadCandidates, SelectActive, CreateSession, CallbackFails,
        SessionEnds
<1>2. OfficeInv /\ [OfficeNext]_officeVars => [\A m \in Members : MadeByOne(m)]_users
  BY <1>1
<1> QED
  BY <1>2, OfficeInvariant, PTL DEF OfficeSpec, AdministratorsAreMadeByAdministrators
=============================================================================
