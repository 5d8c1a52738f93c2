------------------------------- MODULE Access -------------------------------
(***************************************************************************)
(* Who may do what: sessions (internal/auth), the permissions of           *)
(* internal/users/permissions.go, bookmark links, and the handlers of      *)
(* /admin/users that change roles, states and permissions.                 *)
(*                                                                         *)
(* A statement, or a transaction, is a step.  Can, the question every      *)
(* guarded route asks, is two: the role first, then the override.  A       *)
(* session is a signed cookie that the browser keeps and the program does  *)
(* not: it ends when the browser drops it.  Passwords, signatures and the  *)
(* pages are left out.                                                     *)
(***************************************************************************)
EXTENDS Naturals, FiniteSets

CONSTANTS
  Names,       \* usernames
  Perms,       \* the permissions of the instance
  Roles,       \* the roles of the instance
  Matrices,    \* the permission matrices an administrator may save
  NoUser,      \* no such row
  NoName,      \* of a request that is not served: nobody
  Browsers,    \* browsers, each with one cookie of the name CookieName
  Desks,       \* those in which somebody types a password
  NoSession,   \* the cookie of a browser that has none
  Requests,    \* goroutines that serve a request
  MaxUsers,    \* bound on the ids given out by users.id AUTOINCREMENT
  MaxTokens,   \* bound on the bookmark links issued
  MaxChanges   \* bound on the changes of accounts and overrides

AllRoles == {"admin", "user_manager", "server_manager", "member"}
AllPerms == {"manage_users", "manage_server", "own_shelves", "manage_shelves",
             "create_public_shelves", "bookmark_link"}

(* What the administrator decided of one permission of one account: a row  *)
(* of user_permission_overrides, or none.                                  *)
Decisions == {"none", "grant", "revoke"}

ASSUME AccessAssumption ==
  /\ MaxUsers \in Nat /\ MaxTokens \in Nat /\ MaxChanges \in Nat
  /\ Perms \subseteq AllPerms /\ {"manage_users", "bookmark_link"} \subseteq Perms
  /\ Matrices \subseteq [Perms -> Decisions]
  /\ Roles \subseteq AllRoles /\ "admin" \in Roles
  /\ NoName \notin Names /\ Desks \subseteq Browsers

VARIABLES
  users,       \* table users: id -> row
  nextId,      \* the next id
  nextToken,   \* the next bookmark link's token
  grants,      \* table user_permission_overrides: id -> permission -> decision
  cookie,      \* browser -> the session it keeps
  req,         \* what each request has read and is about to do
  decided,     \* history: what the permission matrix was last saved with
  signed,      \* history: who has signed in with a password, and where
  changes      \* how often accounts and overrides have been changed

vars == <<users, nextId, nextToken, grants, cookie, req, decided, signed, changes>>

Change == changes < MaxChanges /\ changes' = changes + 1

Ids    == 1 .. MaxUsers
Tokens == 1 .. MaxTokens

(* bookmark: the column can_bookmark; token: bookmark_token_hash, 0 = NULL *)
Account == [name     : Names,
            role     : Roles,
            enabled  : BOOLEAN,
            bookmark : BOOLEAN,
            token    : Tokens \cup {0}]

Session == [name : Names, restricted : BOOLEAN]

ASSUME AbsentAssumption == NoUser \notin Account /\ NoSession \notin Session

(* asks: for whom Can is being asked; id, role: what its first statement   *)
(* read; target: the account a handler is about to change; can: the answer *)
(* AdminUsersSetRole passes on.  A request that signs in has, at           *)
(* "session", found the password or the link of by right.                  *)
Pc  == {"idle", "session", "ask", "override", "serve", "issue", "setRole", "matrix", "save"}
For == {"password", "link", "guard", "bookmark", "token", "role"}
Req == [pc     : Pc,
        for    : For,
        from   : Browsers \cup {NoSession},
        by     : Names \cup {NoName},
        asks   : Names \cup {NoName},
        id     : Ids \cup {0},
        role   : Roles,
        target : Ids \cup {0},
        can    : BOOLEAN]

Idle == [pc |-> "idle", for |-> "guard", from |-> NoSession, by |-> NoName,
         asks |-> NoName, id |-> 0, role |-> "admin", target |-> 0, can |-> FALSE]

At(r, pc)  == req[r].pc = pc
Read(r, q) == req' = [req EXCEPT ![r] = q]
Return(r)  == Read(r, Idle)

Rows       == {b \in Ids : users[b] # NoUser}
Enabled(n) == {b \in Rows : users[b].name = n /\ users[b].enabled}

NoDecision == [p \in Perms |-> "none"]

Init ==
  /\ users = [b \in Ids |-> NoUser] /\ nextId = 1 /\ nextToken = 1
  /\ grants = [b \in Ids |-> NoDecision] /\ decided = grants
  /\ cookie = [w \in Browsers |-> NoSession] /\ signed = {}
  /\ req = [r \in Requests |-> Idle]
  /\ changes = 0

-----------------------------------------------------------------------------
(* Permissions.                                                            *)

RoleHasPermission(role, p) ==
  \/ role = "admin" \/ p \in {"own_shelves", "bookmark_link"}
  \/ p = "manage_users" /\ role = "user_manager"
  \/ p = "manage_server" /\ role = "server_manager"

(* An override refines the default of the role.                            *)
Holds(decision, role, p) ==
  decision = "grant" \/ (decision = "none" /\ RoleHasPermission(role, p))

(* The effective permission of an account.                                 *)
Effective(b, p) == users[b].enabled /\ Holds(grants[b][p], users[b].role, p)

(* Three callers ask Can: the guard of the routes, the bookmark page, once *)
(* itself and once in GenerateBookmarkToken, and AdminUsersSetRole.        *)
Asked(r) == IF req[r].for = "guard" THEN "manage_users" ELSE "bookmark_link"

Answer(r, yes) ==
  LET q == [Idle EXCEPT !.from = req[r].from, !.by = req[r].by] IN
  \/ /\ req[r].for = "role"
     /\ Read(r, [q EXCEPT !.pc = "setRole", !.can = yes, !.target = req[r].target])
  \/ req[r].for = "guard" /\ yes /\ Read(r, [q EXCEPT !.pc = "serve"])
  \/ /\ req[r].for = "bookmark" /\ yes
     /\ Read(r, [q EXCEPT !.pc = "ask", !.for = "token", !.asks = q.by])
  \/ req[r].for = "token" /\ yes /\ Read(r, [q EXCEPT !.pc = "issue"])
  \/ req[r].for # "role" /\ ~ yes /\ Return(r)

(* Can, first statement: the id and the role of the enabled account.       *)
AskRole(r) ==
  /\ At(r, "ask")
  /\ \/ \E b \in Enabled(req[r].asks) :
          Read(r, [req[r] EXCEPT !.pc = "override", !.id = b, !.role = users[b].role])
     \/ Enabled(req[r].asks) = {} /\ Answer(r, FALSE)
  /\ UNCHANGED <<users, nextId, nextToken, grants, cookie, decided, signed, changes>>

(* Can, second statement: the override of that id.                         *)
AskOverride(r) ==
  /\ At(r, "override")
  /\ Answer(r, Holds(grants[req[r].id][Asked(r)], req[r].role, Asked(r)))
  /\ UNCHANGED <<users, nextId, nextToken, grants, cookie, decided, signed, changes>>

-----------------------------------------------------------------------------
(* Sessions.                                                               *)

(* CheckPassword looks at the enabled account only.                        *)
CheckPassword(n) == Enabled(n) # {}

(* What LoginSubmit, SetupSubmit and RequireAuth go on with: by what the   *)
(* request has shown, in which browser and for whom a session is due.      *)
SignIn(r, for, w, n) ==
  Read(r, [Idle EXCEPT !.pc = "session", !.for = for, !.from = w, !.by = n])

(* The hash is compared, which takes a while, before the session is issued.*)
LoginSubmit(r, w, n) ==
  /\ At(r, "idle") /\ w \in Desks
  /\ CheckPassword(n)
  /\ SignIn(r, "password", w, n)
  /\ signed' = signed \cup {<<w, n>>}
  /\ UNCHANGED <<users, nextId, nextToken, grants, cookie, decided, changes>>

(* Mutant: a full session.                                                 *)
FullSession(n) == [name |-> n, restricted |-> FALSE]

RestrictedSession(n) == [name |-> n, restricted |-> TRUE]

(* IssueSession and IssueRestrictedSession ask nothing: an account that    *)
(* was disabled or deleted meanwhile gets its cookie all the same.         *)
IssueSession(r) ==
  LET n == req[r].by IN
  /\ At(r, "session")
  /\ cookie' = [cookie EXCEPT ![req[r].from] =
                  IF req[r].for = "link" THEN RestrictedSession(n)
                  ELSE [name |-> n, restricted |-> FALSE]]
  /\ Return(r)
  /\ UNCHANGED <<users, nextId, nextToken, grants, decided, signed, changes>>

(* ClearSession, and an expiry that has passed.                            *)
EndSession(w) ==
  /\ cookie[w] # NoSession
  /\ cookie' = [cookie EXCEPT ![w] = NoSession]
  /\ UNCHANGED <<users, nextId, nextToken, grants, req, decided, signed, changes>>

(* The join of VerifyBookmarkToken: the role is not consulted.             *)
Verifies(b) == users[b].token # 0 /\ users[b].enabled /\ grants[b]["bookmark_link"] # "revoke"

(* VerifySession: the account of the cookie is enabled.                    *)
VerifySession(w) == cookie[w] # NoSession /\ Enabled(cookie[w].name) # {}

(* RequireAuth takes the token of a link when there is no session, and     *)
(* gives the browser one.                                                  *)
VisitBookmark(r, w, t) ==
  /\ At(r, "idle")
  /\ ~ VerifySession(w)
  /\ \E b \in Rows : Verifies(b) /\ users[b].token = t /\ SignIn(r, "link", w, users[b].name)
  /\ UNCHANGED <<users, nextId, nextToken, grants, cookie, decided, signed, changes>>

(* RequireFull: a session, and not a restricted one.  /admin/users asks    *)
(* Can next (RequirePermission), the bookmark page does so in its handler. *)
Arrive(r, w, for) ==
  /\ At(r, "idle")
  /\ VerifySession(w) /\ ~ cookie[w].restricted
  /\ Read(r, [Idle EXCEPT !.pc = "ask", !.for = for, !.from = w,
                          !.by = cookie[w].name, !.asks = cookie[w].name])
  /\ UNCHANGED <<users, nextId, nextToken, grants, cookie, decided, signed, changes>>

(* GenerateBookmarkToken: the UPDATE finds the row by its name.            *)
IssueBookmark(r) ==
  /\ At(r, "issue") /\ nextToken \in Tokens
  /\ users' = [b \in Ids |-> IF b \in Rows /\ users[b].name = req[r].by
                             THEN [users[b] EXCEPT !.token = nextToken] ELSE users[b]]
  /\ nextToken' = nextToken + 1
  /\ Return(r)
  /\ UNCHANGED <<nextId, grants, cookie, decided, signed, changes>>

-----------------------------------------------------------------------------
(* Accounts.                                                               *)

(* Mutant: an id above the rows there are, as without AUTOINCREMENT.       *)
InsertAbove(n, role) ==
  LET id == CHOOSE i \in 1 .. MaxUsers + 1 :
              i \notin Rows /\ \A b \in Rows : b < i /\ (i = 1 \/ i - 1 \in Rows) IN
  /\ id \in Ids
  /\ Change
  /\ users' = [users EXCEPT ![id] = [name |-> n, role |-> role, enabled |-> TRUE,
                                     bookmark |-> TRUE, token |-> 0]]
  /\ UNCHANGED nextId

Insert(n, role) ==
  /\ nextId \in Ids
  /\ Change
  /\ users' = [users EXCEPT ![nextId] = [name |-> n, role |-> role, enabled |-> TRUE,
                                         bookmark |-> TRUE, token |-> 0]]
  /\ nextId' = nextId + 1

(* SetupSubmit: the first administrator, in one statement, then a session. *)
SetupSubmit(r, w, n) ==
  /\ At(r, "idle") /\ w \in Desks
  /\ Rows = {}
  /\ Insert(n, "admin")
  /\ SignIn(r, "password", w, n)
  /\ signed' = signed \cup {<<w, n>>}
  /\ UNCHANGED <<nextToken, grants, cookie, decided>>

UsernameTaken(n) == \E b \in Rows : users[b].name = n

(* AdminUsersCreate, and admin create-user, which no request asks for.     *)
AdminUsersCreate(r, n, role) ==
  /\ At(r, "serve") /\ ~ UsernameTaken(n)
  /\ Insert(n, role)
  /\ Return(r)
  /\ UNCHANGED <<nextToken, grants, cookie, decided, signed>>

CreateUserCommand(n, role) ==
  /\ ~ UsernameTaken(n)
  /\ Insert(n, role)
  /\ UNCHANGED <<nextToken, grants, cookie, req, decided, signed>>

NotTheLast(b) ==
  LET admins == {o \in Rows : users[o].role = "admin" /\ users[o].enabled}
  IN  b \in admins => Cardinality(admins) > 1

AdminUsersSetEnabled(r, b, e) ==
  /\ At(r, "serve") /\ b \in Rows
  /\ ~ e => NotTheLast(b)
  /\ Change
  /\ users' = [users EXCEPT ![b].enabled = e]
  /\ Return(r)
  /\ UNCHANGED <<nextId, nextToken, grants, cookie, decided, signed>>

(* The overrides of a deleted account stay: its id is not given out again. *)
AdminUsersDelete(r, b) ==
  /\ At(r, "serve") /\ b \in Rows /\ NotTheLast(b)
  /\ Change
  /\ users' = [users EXCEPT ![b] = NoUser]
  /\ Return(r)
  /\ UNCHANGED <<nextId, nextToken, grants, cookie, decided, signed>>

(* AdminUsersSetRole looks the account up, asks Can whether it may use a   *)
(* bookmark, and passes the answer to SetRole, one transaction.            *)
AdminUsersSetRole(r, b) ==
  /\ At(r, "serve") /\ b \in Rows
  /\ Read(r, [req[r] EXCEPT !.pc = "ask", !.for = "role", !.asks = users[b].name,
                            !.target = b])
  /\ UNCHANGED <<users, nextId, nextToken, grants, cookie, decided, signed, changes>>

(* Mutant: a new role starts from its defaults.                            *)
ForgetDecisions(b, can) ==
  [grants EXCEPT ![b] = [NoDecision EXCEPT !["bookmark_link"] = IF can THEN "none" ELSE "revoke"]]

WriteBookmark(b, can) ==
  [grants EXCEPT ![b]["bookmark_link"] = IF can THEN "none" ELSE "revoke"]

SetRole(r, role) ==
  LET b == req[r].target  can == req[r].can IN
  /\ At(r, "setRole") /\ b \in Rows
  /\ role # "admin" => NotTheLast(b)
  /\ Change
  /\ users' = [users EXCEPT ![b].role = role, ![b].bookmark = can]
  /\ grants' = WriteBookmark(b, can)
  /\ Return(r)
  /\ UNCHANGED <<nextId, nextToken, cookie, decided, signed>>

(* AdminUsersSetPermission asks whether the user is an administrator,      *)
(* reads the account, and saves the whole matrix in one transaction.       *)
MatrixIsAdmin(r) ==
  /\ At(r, "serve")
  /\ \E b \in Enabled(req[r].by) : users[b].role = "admin"
  /\ Read(r, [req[r] EXCEPT !.pc = "matrix"])
  /\ UNCHANGED <<users, nextId, nextToken, grants, cookie, decided, signed, changes>>

PermissionStates(r, b) ==
  /\ At(r, "matrix") /\ b \in Rows
  /\ Read(r, [req[r] EXCEPT !.pc = "save", !.target = b])
  /\ UNCHANGED <<users, nextId, nextToken, grants, cookie, decided, signed, changes>>

SetPermissionOverrides(r, matrix) ==
  /\ At(r, "save")
  /\ Change
  /\ grants' = [grants EXCEPT ![req[r].target] = matrix]
  /\ decided' = [decided EXCEPT ![req[r].target] = matrix]
  /\ Return(r)
  /\ UNCHANGED <<users, nextId, nextToken, cookie, signed>>

(* A handler refuses, or fails: nothing is written.                        *)
Abandon(r) ==
  /\ ~ At(r, "idle")
  /\ Return(r)
  /\ UNCHANGED <<users, nextId, nextToken, grants, cookie, decided, signed, changes>>

-----------------------------------------------------------------------------
(* migrateColumns, whenever users.db is opened: by the server that starts, *)
(* and by an admin command while the server runs.                          *)

(* Mutant: the column decides.                                             *)
ColumnDecides ==
  [b \in Ids |-> IF b \notin Rows THEN grants[b]
                 ELSE [grants[b] EXCEPT !["bookmark_link"] =
                         IF users[b].bookmark THEN "none" ELSE "revoke"]]

(* INSERT ... ON CONFLICT DO NOTHING: a decision is not overwritten.       *)
Migrated ==
  [b \in Ids |-> IF b \in Rows /\ ~ users[b].bookmark /\ grants[b]["bookmark_link"] = "none"
                 THEN [grants[b] EXCEPT !["bookmark_link"] = "revoke"] ELSE grants[b]]

OpenByCommand ==
  /\ grants' = Migrated
  /\ UNCHANGED <<users, nextId, nextToken, cookie, req, decided, signed, changes>>

Restart ==
  /\ grants' = Migrated
  /\ req' = [r \in Requests |-> Idle]
  /\ UNCHANGED <<users, nextId, nextToken, cookie, decided, signed, changes>>

-----------------------------------------------------------------------------
Handler(r) ==
  \/ \E n \in Names, role \in Roles : AdminUsersCreate(r, n, role)
  \/ \E b \in Ids :
       \/ \E e \in BOOLEAN : AdminUsersSetEnabled(r, b, e)
       \/ AdminUsersDelete(r, b) \/ AdminUsersSetRole(r, b) \/ PermissionStates(r, b)
  \/ \E role \in Roles : SetRole(r, role)
  \/ MatrixIsAdmin(r)
  \/ \E matrix \in Matrices : SetPermissionOverrides(r, matrix)
  \/ IssueBookmark(r)

Next ==
  \/ \E w \in Browsers : EndSession(w)
  \/ \E n \in Names, role \in Roles : CreateUserCommand(n, role)
  \/ \E r \in Requests :
       \/ \E w \in Browsers :
            \/ \E n \in Names : SetupSubmit(r, w, n) \/ LoginSubmit(r, w, n)
            \/ \E t \in Tokens : VisitBookmark(r, w, t)
            \/ \E for \in {"guard", "bookmark"} : Arrive(r, w, for)
       \/ IssueSession(r)
       \/ AskRole(r) \/ AskOverride(r)
       \/ Handler(r)
       \/ Abandon(r)
  \/ OpenByCommand \/ Restart

Spec == Init /\ [][Next]_vars

-----------------------------------------------------------------------------
TypeOK ==
  /\ users \in [Ids -> Account \cup {NoUser}]
  /\ nextId \in 1 .. MaxUsers + 1
  /\ nextToken \in 1 .. MaxTokens + 1
  /\ grants \in [Ids -> [Perms -> Decisions]]
  /\ decided \in [Ids -> [Perms -> Decisions]]
  /\ cookie \in [Browsers -> Session \cup {NoSession}]
  /\ signed \subseteq Browsers \X Names
  /\ changes \in 0 .. MaxChanges
  /\ req \in [Requests -> Req]
  /\ \A r \in Requests : At(r, "session") => req[r].from \in Browsers /\ req[r].by \in Names

(* "Only an administrator may change overrides": whatever roles are        *)
(* changed, accounts disabled and programs restarted meanwhile, what the   *)
(* matrix was saved with is what is in force, for every permission but the *)
(* bookmark link, which SetRole and the opening of the store write too.    *)
OverridesAreDecided ==
  \A b \in Ids : \A p \in Perms \ {"bookmark_link"} : grants[b][p] = decided[b][p]

(* An account gains a permission only by the write of a request whose user *)
(* was found to manage users: no restart, command or session adds one.     *)
GainsAreServed ==
  [][\A b \in Rows \cap Rows', p \in Perms :
       ~ Effective(b, p) /\ Effective(b, p)' =>
         \E r \in Requests : /\ req[r].pc \in {"serve", "setRole", "save"}
                             /\ req'[r].pc = "idle"]_vars

(* A bookmark session "cannot change account settings or use               *)
(* administration": every request a guarded handler gets comes from a      *)
(* browser in which its user has typed the password.                       *)
AdmittedIsFull ==
  \A r \in Requests :
    ~ At(r, "idle") /\ ~ At(r, "session") => <<req[r].from, req[r].by>> \in signed

(* Deleting an account leaves its overrides, and the requests that were    *)
(* about to decide of it (permissions.go, the statements after the look-up *)
(* of the id): none of them ever reaches an account made later, whose      *)
(* permissions are those of its role.                                      *)
NewcomersInheritNothing ==
  [][\A b \in Rows' \ Rows :
       /\ grants'[b] = NoDecision
       /\ \A r \in Requests : b \notin {req'[r].id, req'[r].target}]_vars

-----------------------------------------------------------------------------
(* What the documentation and the comments say and the code does not       *)
(* ensure.                                                                 *)

(* A permission the administrator left at its default is not overridden.   *)
DefaultStays ==
  \A b \in Rows : decided[b]["bookmark_link"] = "none" => grants[b]["bookmark_link"] = "none"

(* A bookmark link the administrator revoked stays revoked.                *)
RevokeStays ==
  \A b \in Rows : decided[b]["bookmark_link"] = "revoke" => grants[b]["bookmark_link"] = "revoke"
=============================================================================
