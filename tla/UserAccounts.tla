---------------------------- MODULE UserAccounts ----------------------------
(***************************************************************************)
(* The accounts of users.db (internal/users: accounts.go and tokens.go)    *)
(* and the requests that change them.  A statement, or a transaction, is a *)
(* step; a request that reads first and writes later is two steps or more, *)
(* and other requests run between them.                                    *)
(*                                                                         *)
(* Links carry a token, of which the table keeps the hash: a token is a    *)
(* number, 0 when the column is NULL.  Whoever was sent a link may submit  *)
(* it, late, twice or never; an expired link is one that is not submitted. *)
(* The clock, passwords, permissions and preferences are left out.         *)
(***************************************************************************)
EXTENDS Naturals, FiniteSets

CONSTANTS
  Names,       \* usernames
  Emails,      \* addresses
  NoEmail,     \* the address of an account that has none
  NoUser,      \* no such row
  Requests,    \* goroutines that serve a request of several statements
  MaxUsers,    \* bound on the ids given out by users.id AUTOINCREMENT
  MaxTokens    \* bound on the links issued

ASSUME AccountsAssumption ==
  /\ MaxUsers \in Nat /\ MaxTokens \in Nat
  /\ NoEmail \notin Emails

VARIABLES
  users,       \* table users: id -> row
  nextId,      \* the next id
  nextToken,   \* the next link's token
  spent,       \* the tokens whose links have been accepted
  req          \* what each request has read and is about to write

vars == <<users, nextId, nextToken, spent, req>>

Ids    == 1 .. MaxUsers
Tokens == 1 .. MaxTokens

(* Of the four roles only the administrator's matters to these functions.  *)
Roles == {"admin", "other"}

(* joined (not a column): the invitation has been accepted.                *)
Account == [name    : Names,
            role    : Roles,
            enabled : BOOLEAN,
            email   : Emails \cup {NoEmail},
            invite  : Tokens \cup {0},
            reset   : Tokens \cup {0},
            joined  : BOOLEAN]

ASSUME NoUserAssumption == NoUser \notin Account

Rows == {b \in Ids : users[b] # NoUser}

(* SELECT COUNT(...) WHERE role = 'admin' AND enabled = 1.                 *)
EnabledAdmins == {b \in Rows : users[b].role = "admin" /\ users[b].enabled}

Pc  == {"idle", "insert", "setEmail", "resend", "issueInvite", "issueReset"}
Req == [pc     : Pc,
        id     : Ids \cup {0},
        name   : Names \cup {NoUser},
        role   : Roles,
        email  : Emails \cup {NoEmail},
        invite : BOOLEAN]

Idle == [pc |-> "idle", id |-> 0, name |-> NoUser, role |-> "other",
         email |-> NoEmail, invite |-> FALSE]

At(r, pc)  == req[r].pc = pc
Read(r, q) == req' = [req EXCEPT ![r] = q]
Return(r)  == Read(r, Idle)

Init ==
  /\ users = [b \in Ids |-> NoUser] /\ nextId = 1
  /\ nextToken = 1 /\ spent = {}
  /\ req = [r \in Requests |-> Idle]

-----------------------------------------------------------------------------
(* New accounts.                                                           *)

Row(n, role, e, t) == [name |-> n, role |-> role, enabled |-> TRUE, email |-> e,
                       invite |-> t, reset |-> 0, joined |-> FALSE]

Insert(row) ==
  /\ nextId \in Ids
  /\ users' = [users EXCEPT ![nextId] = row]
  /\ nextId' = nextId + 1

(* CreateFirstAdmin is one statement, which inserts only into an empty     *)
(* table.                                                                  *)
CreateFirstAdmin(n) ==
  /\ Rows = {}
  /\ Insert(Row(n, "admin", NoEmail, 0))
  /\ UNCHANGED <<nextToken, spent, req>>

EmailTaken(e, b) == e # NoEmail /\ \E o \in Rows : o # b /\ users[o].email = e

(* The permission check of the request found an enabled account.           *)
SignedIn == \E b \in Rows : users[b].enabled

(* Create and InviteUser look for the address, and later insert.           *)
CreateCheck(r, n, role, e, invited) ==
  /\ At(r, "idle") /\ SignedIn
  /\ ~ EmailTaken(e, 0)
  /\ invited => e # NoEmail
  /\ Read(r, [Idle EXCEPT !.pc = "insert", !.name = n, !.role = role,
                          !.email = e, !.invite = invited])
  /\ UNCHANGED <<users, nextId, nextToken, spent>>

UsernameTaken(n) == \E b \in Rows : users[b].name = n

CreateInsert(r) ==
  LET q == req[r] IN
  /\ At(r, "insert")
  /\ \/ /\ UsernameTaken(q.name)
        /\ UNCHANGED <<users, nextId, nextToken>>
     \/ /\ ~ UsernameTaken(q.name) /\ ~ q.invite
        /\ Insert(Row(q.name, q.role, q.email, 0))
        /\ UNCHANGED nextToken
     \/ /\ ~ UsernameTaken(q.name) /\ q.invite /\ nextToken \in Tokens
        /\ Insert(Row(q.name, q.role, q.email, nextToken))
        /\ nextToken' = nextToken + 1
  /\ Return(r)
  /\ UNCHANGED spent

-----------------------------------------------------------------------------
(* Changes of role and state: each a transaction, that counts the enabled  *)
(* administrators when it is about to take one away.                       *)

(* Mutant: counts the disabled administrators too.                         *)
NotTheLastRow(b) ==
  b \in EnabledAdmins => Cardinality({o \in Rows : users[o].role = "admin"}) > 1

NotTheLast(b) == b \in EnabledAdmins => Cardinality(EnabledAdmins) > 1

SetRole(b, role) ==
  /\ b \in Rows
  /\ role # "admin" => NotTheLast(b)
  /\ users' = [users EXCEPT ![b].role = role]
  /\ UNCHANGED <<nextId, nextToken, spent, req>>

SetEnabled(b, e) ==
  /\ b \in Rows
  /\ ~ e => NotTheLast(b)
  /\ users' = [users EXCEPT ![b].enabled = e]
  /\ UNCHANGED <<nextId, nextToken, spent, req>>

Delete(b) ==
  /\ b \in Rows /\ NotTheLast(b)
  /\ users' = [users EXCEPT ![b] = NoUser]
  /\ UNCHANGED <<nextId, nextToken, spent, req>>

(* SetEmail looks for the address, and later updates.                      *)
SetEmailCheck(r, b, e) ==
  /\ At(r, "idle") /\ b \in Rows
  /\ ~ EmailTaken(e, b)
  /\ Read(r, [Idle EXCEPT !.pc = "setEmail", !.id = b, !.email = e])
  /\ UNCHANGED <<users, nextId, nextToken, spent>>

SetEmail(r) ==
  LET b == req[r].id IN
  /\ At(r, "setEmail")
  /\ users' = IF b \in Rows THEN [users EXCEPT ![b].email = req[r].email] ELSE users
  /\ Return(r)
  /\ UNCHANGED <<nextId, nextToken, spent>>

-----------------------------------------------------------------------------
(* Links.                                                                  *)

(* issueTimedToken: the UPDATE finds the rows again, by id or username.    *)
IssueToken(r, kind, S) ==
  /\ nextToken \in Tokens
  /\ nextToken' = nextToken + 1
  /\ users' = [b \in Ids |->
                 IF b \notin S THEN users[b]
                 ELSE IF kind = "invite" THEN [users[b] EXCEPT !.invite = nextToken]
                 ELSE [users[b] EXCEPT !.reset = nextToken]]
  /\ Return(r)
  /\ UNCHANGED <<nextId, spent>>

(* AdminUsersResendInvite reads the account; ResendInvite reads whether    *)
(* its invitation is pending, and then issues the token.                   *)
ResendLookup(r, b) ==
  /\ At(r, "idle")
  /\ b \in Rows /\ users[b].email # NoEmail
  /\ Read(r, [Idle EXCEPT !.pc = "resend", !.id = b])
  /\ UNCHANGED <<users, nextId, nextToken, spent>>

ResendPending(r) ==
  LET b == req[r].id IN
  /\ At(r, "resend")
  /\ IF b \in Rows /\ users[b].enabled /\ users[b].invite # 0
     THEN Read(r, [req[r] EXCEPT !.pc = "issueInvite"])
     ELSE Return(r)
  /\ UNCHANGED <<users, nextId, nextToken, spent>>

ResendIssue(r) == At(r, "issueInvite") /\ IssueToken(r, "invite", Rows \cap {req[r].id})

(* RequestPasswordReset reads the username that has the address.           *)
ForgotLookup(r, e) ==
  /\ At(r, "idle")
  /\ \E b \in Rows :
       /\ users[b].email = e /\ users[b].enabled
       /\ Read(r, [Idle EXCEPT !.pc = "issueReset", !.name = users[b].name])
  /\ UNCHANGED <<users, nextId, nextToken, spent>>

ForgotIssue(r) ==
  /\ At(r, "issueReset")
  /\ IssueToken(r, "reset", {b \in Rows : users[b].name = req[r].name})

(* Mutant: looks at all of them.                                           *)
VerifiedAny(kind, t) ==
  {b \in Rows : t = IF kind = "invite" THEN users[b].invite ELSE users[b].reset}

(* verifyTimedToken looks at the enabled accounts only.                    *)
Verified(kind, t) ==
  {b \in Rows : users[b].enabled /\ t = IF kind = "invite" THEN users[b].invite
                                                           ELSE users[b].reset}

(* consumeTimedToken, one transaction: verifies the token, sets the        *)
(* password and clears the column.                                         *)
AcceptInvite(t) ==
  /\ \E b \in Verified("invite", t) :
       users' = [users EXCEPT ![b].invite = 0, ![b].joined = TRUE]
  /\ spent' = spent \cup {t}
  /\ UNCHANGED <<nextId, nextToken, req>>

(* Mutant: the column keeps its value.                                     *)
ResetAgain(t) ==
  /\ Verified("reset", t) # {}
  /\ spent' = spent \cup {t}
  /\ UNCHANGED <<users, nextId, nextToken, req>>

CompletePasswordReset(t) ==
  /\ \E b \in Verified("reset", t) : users' = [users EXCEPT ![b].reset = 0]
  /\ spent' = spent \cup {t}
  /\ UNCHANGED <<nextId, nextToken, req>>

(* The process ends, and a request with it: what it has read is lost.      *)
Abandon(r) ==
  /\ ~ At(r, "idle")
  /\ Return(r)
  /\ UNCHANGED <<users, nextId, nextToken, spent>>

-----------------------------------------------------------------------------
Next ==
  \/ \E n \in Names : CreateFirstAdmin(n)
  \/ \E r \in Requests :
       \/ \E n \in Names, role \in Roles, e \in Emails \cup {NoEmail}, i \in BOOLEAN :
            CreateCheck(r, n, role, e, i)
       \/ \E b \in Ids, e \in Emails \cup {NoEmail} : SetEmailCheck(r, b, e)
       \/ \E b \in Ids : ResendLookup(r, b)
       \/ \E e \in Emails : ForgotLookup(r, e)
       \/ CreateInsert(r) \/ SetEmail(r)
       \/ ResendPending(r) \/ ResendIssue(r) \/ ForgotIssue(r)
       \/ Abandon(r)
  \/ \E b \in Ids :
       \/ \E role \in Roles : SetRole(b, role)
       \/ \E e \in BOOLEAN : SetEnabled(b, e)
       \/ Delete(b)
  \/ \E t \in Tokens : AcceptInvite(t) \/ CompletePasswordReset(t)

Spec == Init /\ [][Next]_vars

-----------------------------------------------------------------------------
TypeOK ==
  /\ users \in [Ids -> Account \cup {NoUser}]
  /\ nextId \in 1 .. MaxUsers + 1
  /\ nextToken \in 1 .. MaxTokens + 1
  /\ spent \subseteq Tokens
  /\ req \in [Requests -> Req]

(* Once there has been an account, some enabled account is an              *)
(* administrator's, whatever demotions, disablings and deletions race:     *)
(* "the final enabled administrator cannot be disabled", nor lost in any   *)
(* other way, so the program never falls back to its one-time setup page.  *)
AnAdminRemains == nextId > 1 => EnabledAdmins # {}

(* A link works once, also when requests for it and for newer links race:  *)
(* no account holds the token of a link that has been accepted.            *)
SpentIsDead ==
  \A b \in Rows : users[b].invite \notin spent /\ users[b].reset \notin spent

(* Disabling blocks the links of the account until it is enabled again:    *)
(* neither its invitation nor its reset is completed meanwhile.            *)
DisabledIsBlocked ==
  [][\A b \in Rows :
       ~ users[b].enabled /\ b \in Rows' =>
         /\ users[b].invite # 0 => users'[b].invite # 0
         /\ users[b].reset # 0 => users'[b].reset # 0]_vars

-----------------------------------------------------------------------------
(* What the documentation and the tests say and the code does not ensure.  *)

(* An address belongs to one account.                                      *)
EmailsAreUnique ==
  \A a, b \in Rows : users[a].email = users[b].email /\ users[a].email # NoEmail => a = b

(* An invitation that was accepted is not pending again.                   *)
AcceptedIsNotPending == \A b \in Rows : users[b].joined => users[b].invite = 0
=============================================================================
