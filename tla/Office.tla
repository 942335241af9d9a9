------------------------------- MODULE Office -------------------------------
(***************************************************************************)
(* Members, their rights and their sessions: worker/routes/office.ts,      *)
(* worker/routes/auth.ts and worker/http/session.ts.                       *)
(*                                                                         *)
(* A request looks its session up (requireSession), which tells it the     *)
(* member and the role, and changes the members in a batch some awaits     *)
(* later; the batch checks the rights again.  A login goes through the     *)
(* directory of Naver Works: each of its awaits is a step, and             *)
(* deactivations may come between any two of them.                         *)
(*                                                                         *)
(* The two roles without rights over the team are one, "staff".  Names     *)
(* and titles, which share the role's UPDATE, are left out.                *)
(***************************************************************************)
EXTENDS Naturals, FiniteSets

CONSTANTS
  Members,    \* rows of users, those not yet invited too
  Accounts,   \* subjects of the directory
  Mailbox,    \* <<a, m>>: account a may have the address of member m
  Founder,    \* the first administrator
  States,     \* rows of oauth_states
  Callbacks,  \* deliveries of the directory's redirect; each issues a cookie
  StateOf,    \* the state a callback brings
  SignedIn,   \* the founder's standing cookie
  Requests,   \* requests to the office routes
  Nobody

ASSUME OfficeAssumption ==
  /\ Founder \in Members
  /\ Mailbox \subseteq Accounts \X Members
  /\ StateOf \in [Callbacks -> States]
  /\ SignedIn \in Callbacks
  /\ \E a \in Accounts : <<a, Founder>> \in Mailbox
  /\ Nobody \notin Members \union Accounts

VARIABLES
  users,     \* role, status and works_sub of each member
  oauth,     \* oauth_states: "none", "stored", "expired", "consumed"
  callback,  \* each callback: its step, the account and the member it found
  sessions,  \* auth_sessions: the member each cookie belongs to
  act        \* each request: the actor its session named and the role then

officeVars == <<users, oauth, callback, sessions, act>>

Roles == {"admin", "deputy", "staff"}
MemberStatuses == {"none", "invited", "active", "inactive"}
Users == [role : Roles, status : MemberStatuses, sub : Accounts \union {Nobody}]
CallbackSteps == {"none", "consumed", "candidate", "inactive", "claimed", "over"}
NoCallback == [pc |-> "none", account |-> Nobody, member |-> Nobody]
NoActor == [actor |-> Nobody, role |-> "staff"]

CallbackStates ==
  [pc : CallbackSteps, account : Accounts \union {Nobody}, member : Members \union {Nobody}]

OfficeTypeOK ==
  /\ users \in [Members -> Users]
  /\ oauth \in [States -> {"none", "stored", "expired", "consumed"}]
  /\ callback \in [Callbacks -> CallbackStates]
  /\ sessions \in [Callbacks -> Members \union {Nobody}]
  /\ act \in [Requests -> [actor : Members \union {Nobody}, role : Roles]]

OfficeInit ==
  \E a \in Accounts :
    /\ <<a, Founder>> \in Mailbox
    /\ users = [m \in Members |->
                  IF m = Founder
                  THEN [role |-> "admin", status |-> "active", sub |-> a]
                  ELSE [role |-> "staff", status |-> "none", sub |-> Nobody]]
    /\ oauth = [s \in States |-> "none"]
    /\ callback = [c \in Callbacks |->
                     IF c = SignedIn
                     THEN [pc |-> "over", account |-> a, member |-> Founder]
                     ELSE NoCallback]
    /\ sessions = [c \in Callbacks |-> IF c = SignedIn THEN Founder ELSE Nobody]
    /\ act = [r \in Requests |-> NoActor]

-----------------------------------------------------------------------------
(* Rights.  hasPermission on the rows as they are now: the guards of the   *)
(* statements (actorPermissionGuard) ask for an active member besides.     *)
PermissionRoles(permission) ==
  IF permission = "team:manage" THEN {"admin", "deputy"} ELSE {"admin"}

Permitted(m, permission) ==
  users[m].status = "active" /\ users[m].role \in PermissionRoles(permission)

Actor(r) == act[r].actor

(* The check of the session's role before the body is read.                *)
SessionPermits(r, permission) ==
  Actor(r) # Nobody /\ act[r].role \in PermissionRoles(permission)

(* Mutant: any other administrator will do, also one invited or inactive.  *)
AdministratorRemainsOfAnyStatus(m) ==
  \E o \in Members \ {m} : users[o].role = "admin" /\ users[o].status # "none"

AdministratorRemains(m) ==
  \E o \in Members \ {m} : users[o].role = "admin" /\ users[o].status = "active"

MayTouch(r, m) ==
  /\ Permitted(Actor(r), "team:manage")
  /\ users[m].role = "admin" => Permitted(Actor(r), "team:manage-administrator")

Ends(r) == act' = [act EXCEPT ![r] = NoActor]

-----------------------------------------------------------------------------
(* Requests of a member to the office routes.                              *)
RequireSession(r, c) ==
  /\ act[r] = NoActor
  /\ sessions[c] # Nobody
  /\ users[sessions[c]].status = "active"
  /\ act' = [act EXCEPT ![r] = [actor |-> sessions[c], role |-> users[sessions[c]].role]]
  /\ UNCHANGED <<users, oauth, callback, sessions>>

(* ON CONFLICT(email) DO NOTHING: inviting someone again changes nothing.  *)
InviteMember(r, m, role) ==
  /\ SessionPermits(r, "team:manage")
  /\ role = "admin" => SessionPermits(r, "team:assign-administrator")
  /\ users' =
       IF /\ users[m].status = "none"
          /\ Permitted(Actor(r), "team:manage")
          /\ role = "admin" => Permitted(Actor(r), "team:assign-administrator")
       THEN [users EXCEPT ![m].role = role, ![m].status = "invited"]
       ELSE users
  /\ Ends(r)
  /\ UNCHANGED <<oauth, callback, sessions>>

(* PATCH of a member's role.                                               *)
UpdateMember(r, m, role) ==
  /\ SessionPermits(r, "team:manage")
  /\ users' =
       IF /\ users[m].status # "none"
          /\ MayTouch(r, m)
          /\ role = "admin" => Permitted(Actor(r), "team:assign-administrator")
          /\ \/ users[m].role # "admin"
             \/ users[m].status # "active"
             \/ role = "admin"
             \/ AdministratorRemains(m)
       THEN [users EXCEPT ![m].role = role]
       ELSE users
  /\ Ends(r)
  /\ UNCHANGED <<oauth, callback, sessions>>

StatusMutationGuard(r, m, status) ==
  /\ users[m].status \notin {"none", status}
  /\ MayTouch(r, m)
  /\ ~(m = Actor(r) /\ status = "inactive")
  /\ \/ users[m].role # "admin"
     \/ users[m].status # "active"
     \/ status # "inactive"
     \/ AdministratorRemains(m)

(* One batch: the member's assignments (see Inbox) and sessions go when    *)
(* the member is deactivated, then the status changes.                     *)
UpdateMemberStatus(r, m, status) ==
  /\ SessionPermits(r, "team:manage")
  /\ IF StatusMutationGuard(r, m, status)
     THEN /\ users' = [users EXCEPT ![m].status = status]
          /\ IF status = "inactive"
             THEN sessions' = [c \in Callbacks |->
                                 IF sessions[c] = m THEN Nobody ELSE sessions[c]]
             ELSE UNCHANGED sessions
     ELSE UNCHANGED <<users, sessions>>
  /\ Ends(r)
  /\ UNCHANGED <<oauth, callback>>

(* The role the session had is not enough, or the body is refused.         *)
RequestRefused(r) ==
  /\ act[r] # NoActor
  /\ Ends(r)
  /\ UNCHANGED <<users, oauth, callback, sessions>>

-----------------------------------------------------------------------------
(* Login.                                                                  *)
StartLogin(s) ==
  /\ oauth[s] = "none"
  /\ oauth' = [oauth EXCEPT ![s] = "stored"]
  /\ UNCHANGED <<users, callback, sessions, act>>

(* Ten minutes pass; some login's start may delete the row then.           *)
StateExpires(s) ==
  /\ oauth[s] = "stored"
  /\ oauth' = [oauth EXCEPT ![s] = "expired"]
  /\ UNCHANGED <<users, callback, sessions, act>>

(* DELETE ... RETURNING; an expired state is deleted and refused.          *)
ConsumeState(c) ==
  /\ callback[c] = NoCallback
  /\ oauth[StateOf[c]] # "none"
  /\ callback' = [callback EXCEPT ![c].pc =
                    IF oauth[StateOf[c]] = "stored" THEN "consumed" ELSE "over"]
  /\ oauth' = [oauth EXCEPT ![StateOf[c]] = "consumed"]
  /\ UNCHANGED <<users, sessions, act>>

(* The directory names the account and its address; claimUser reads the    *)
(* members that have the address and are not deactivated.                  *)
ReadCandidates(c, a, m) ==
  /\ callback[c].pc = "consumed"
  /\ <<a, m>> \in Mailbox
  /\ users[m].status \in {"invited", "active"}
  /\ callback' = [callback EXCEPT ![c] = [pc |-> "candidate", account |-> a, member |-> m]]
  /\ UNCHANGED <<users, oauth, sessions, act>>

(* The UPDATE of an invited member; the index on works_sub makes it throw  *)
(* when another member has the account.                                    *)
ActivateUser(c) ==
  /\ callback[c].pc = "candidate"
  /\ LET m == callback[c].member
         a == callback[c].account
     IN IF users[m].status = "invited" /\ users[m].sub \in {Nobody, a}
        THEN IF \E o \in Members \ {m} : users[o].sub = a
             THEN /\ callback' = [callback EXCEPT ![c].pc = "over"]
                  /\ UNCHANGED users
             ELSE /\ users' = [users EXCEPT ![m].status = "active", ![m].sub = a]
                  /\ callback' = [callback EXCEPT ![c].pc = "claimed"]
        ELSE /\ callback' = [callback EXCEPT ![c].pc = "inactive"]
             /\ UNCHANGED users
  /\ UNCHANGED <<oauth, sessions, act>>

(* No row was activated: an active member of this account signs in.        *)
SelectActive(c) ==
  /\ callback[c].pc = "inactive"
  /\ callback' = [callback EXCEPT ![c].pc =
                    IF /\ users[callback[c].member].status = "active"
                       /\ users[callback[c].member].sub = callback[c].account
                    THEN "claimed" ELSE "over"]
  /\ UNCHANGED <<users, oauth, sessions, act>>

CreateSession(c) ==
  /\ callback[c].pc = "claimed"
  /\ sessions' = [sessions EXCEPT ![c] = callback[c].member]
  /\ callback' = [callback EXCEPT ![c].pc = "over"]
  /\ UNCHANGED <<users, oauth, act>>

(* The directory refuses, a statement throws, or the worker stops.         *)
CallbackFails(c) ==
  /\ callback[c].pc \notin {"none", "over"}
  /\ callback' = [callback EXCEPT ![c].pc = "over"]
  /\ UNCHANGED <<users, oauth, sessions, act>>

(* Logout, or the seven days are over.                                     *)
SessionEnds(c) ==
  /\ sessions[c] # Nobody
  /\ sessions' = [sessions EXCEPT ![c] = Nobody]
  /\ UNCHANGED <<users, oauth, callback, act>>

-----------------------------------------------------------------------------
RouteStep(r) ==
  \/ \E c \in Callbacks : RequireSession(r, c)
  \/ \E m \in Members, role \in Roles : InviteMember(r, m, role)
  \/ \E m \in Members, role \in Roles : UpdateMember(r, m, role)
  \/ \E m \in Members, status \in {"active", "inactive"} :
        UpdateMemberStatus(r, m, status)
  \/ RequestRefused(r)

LoginStep(c) ==
  \/ ConsumeState(c)
  \/ \E a \in Accounts, m \in Members : ReadCandidates(c, a, m)
  \/ ActivateUser(c)
  \/ SelectActive(c)
  \/ CreateSession(c)
  \/ CallbackFails(c)
  \/ SessionEnds(c)

OfficeNext ==
  \/ \E r \in Requests : RouteStep(r)
  \/ \E c \in Callbacks : LoginStep(c)
  \/ \E s \in States : StartLogin(s) \/ StateExpires(s)

OfficeSpec == OfficeInit /\ [][OfficeNext]_officeVars

-----------------------------------------------------------------------------
(***************************************************************************)
(* Properties.                                                             *)
(***************************************************************************)
(* Two requests that demote or deactivate administrators at once, each     *)
(* having seen another one, leave one active administrator (the EXISTS     *)
(* over other_administrator in updateMember and updateMemberStatus).       *)
AnActiveAdministratorRemains ==
  \E m \in Members : users[m].role = "admin" /\ users[m].status = "active"

(* Only a member who is an active administrator at the commit makes or     *)
(* unmakes an administrator, whatever the session said when the request    *)
(* began (inviteMember, updateMember, updateMemberStatus).                 *)
AdministratorsAreMadeByAdministrators ==
  [][\A m \in Members :
       \/ users'[m].role = users[m].role
       \/ "admin" \notin {users[m].role, users'[m].role}
       \/ \E r \in Requests :
            /\ act[r] # NoActor /\ act'[r] = NoActor
            /\ users[act[r].actor].role = "admin"
            /\ users[act[r].actor].status = "active"]_users

(* A session belongs to the directory account its member was bound to at   *)
(* the first login, also when the address has passed to another account    *)
(* and the two log in at once (claimUser).                                 *)
SessionsAreTheAccounts ==
  \A c \in Callbacks :
    sessions[c] # Nobody =>
      /\ sessions[c] = callback[c].member
      /\ users[sessions[c]].sub = callback[c].account
=============================================================================
