---------------------------- MODULE AccessProofs ----------------------------
(***************************************************************************)
(* Proofs about Access for every set of usernames, browsers, requests,     *)
(* roles and permissions, and every bound.                                 *)
(***************************************************************************)
EXTENDS Access, TLAPS

(* A full session in a browser was given for a password typed there.       *)
FullIsSigned ==
  \A w \in Browsers :
    cookie[w] # NoSession /\ ~ cookie[w].restricted => <<w, cookie[w].name>> \in signed

(* The session that is due for a password is one of those.                 *)
DueIsSigned ==
  \A r \in Requests :
    At(r, "session") /\ req[r].for # "link" => <<req[r].from, req[r].by>> \in signed

Inv == TypeOK /\ OverridesAreDecided /\ FullIsSigned /\ DueIsSigned /\ AdmittedIsFull

-----------------------------------------------------------------------------
(* Rows and requests.                                                      *)

LEMMA RowsAreAccounts ==
  ASSUME TypeOK, NEW b \in Rows
  PROVE  b \in Ids /\ users[b] \in Account
  BY DEF TypeOK, Rows

LEMMA EnabledAreRows ==
  ASSUME TypeOK, NEW n, NEW b \in Enabled(n)
  PROVE  b \in Rows /\ b \in Ids /\ users[b] \in Account /\ users[b].name = n /\ users[b].enabled
  BY RowsAreAccounts DEF Enabled

LEMMA IdleIsReq == Idle \in Req
  BY AccessAssumption DEF Idle, Req, Pc, For

LEMMA ReadReq ==
  ASSUME TypeOK, NEW r \in Requests, NEW q \in Req, Read(r, q)
  PROVE  /\ req' \in [Requests -> Req] /\ req'[r] = q
         /\ \A o \in Requests \ {r} : req'[o] = req[o]
  BY DEF TypeOK, Read

LEMMA ReqFields ==
  ASSUME TypeOK, NEW r \in Requests
  PROVE  /\ req[r] \in Req /\ req[r].pc \in Pc /\ req[r].for \in For
         /\ req[r].from \in Browsers \cup {NoSession} /\ req[r].by \in Names \cup {NoName}
         /\ req[r].asks \in Names \cup {NoName} /\ req[r].id \in Ids \cup {0}
         /\ req[r].role \in Roles /\ req[r].target \in Ids \cup {0} /\ req[r].can \in BOOLEAN
  BY DEF TypeOK, Req

(* A request that was admitted goes on, as the same user in the same       *)
(* browser, or any request ends.  The accounts it has read are rows.       *)
ReadIds(r) == {req[r].id, req[r].target}

GoesOn(r) ==
  /\ req' \in [Requests -> Req]
  /\ \A o \in Requests \ {r} : req'[o] = req[o]
  /\ req'[r].pc # "session"
  /\ {req'[r].id, req'[r].target} \subseteq ReadIds(r) \cup {0} \cup Rows
  /\ req'[r].pc # "idle" =>
       ~ At(r, "session") /\ req'[r].from = req[r].from /\ req'[r].by = req[r].by

LEMMA ReturnGoesOn ==
  ASSUME TypeOK, NEW r \in Requests, Return(r)
  PROVE  GoesOn(r) /\ req'[r].pc = "idle"
  BY IdleIsReq, ReadReq DEF Return, GoesOn, Idle

LEMMA AnswerGoesOn ==
  ASSUME TypeOK, NEW r \in Requests, ~ At(r, "session"), NEW yes \in BOOLEAN, Answer(r, yes)
  PROVE  GoesOn(r)
  <1> DEFINE q == [Idle EXCEPT !.from = req[r].from, !.by = req[r].by]
             a == [q EXCEPT !.pc = "setRole", !.can = yes, !.target = req[r].target]
             b == [q EXCEPT !.pc = "serve"]
             c == [q EXCEPT !.pc = "ask", !.for = "token", !.asks = q.by]
             d == [q EXCEPT !.pc = "issue"]
  <1>1. /\ q \in Req /\ a \in Req /\ b \in Req /\ c \in Req /\ d \in Req
    BY ReqFields, IdleIsReq DEF Req, Pc, For, Idle
  <1>2. /\ a.from = req[r].from /\ a.by = req[r].by /\ b.from = req[r].from /\ b.by = req[r].by
        /\ c.from = req[r].from /\ c.by = req[r].by /\ d.from = req[r].from /\ d.by = req[r].by
        /\ Idle.pc = "idle"
        /\ "session" \notin {a.pc, b.pc, c.pc, d.pc}
        /\ a.id = 0 /\ b.id = 0 /\ c.id = 0 /\ d.id = 0 /\ Idle.id = 0
        /\ a.target = req[r].target /\ b.target = 0 /\ c.target = 0 /\ d.target = 0
        /\ Idle.target = 0
    BY DEF Idle
  <1>3. Read(r, a) \/ Read(r, b) \/ Read(r, c) \/ Read(r, d) \/ Read(r, Idle)
    BY DEF Answer, Return
  <1> HIDE DEF a, b, c, d, q
  <1>4. PICK x \in {a, b, c, d, Idle} : Read(r, x)
    BY <1>3
  <1>5. /\ x \in Req /\ x.pc # "session"
        /\ {x.id, x.target} \subseteq ReadIds(r) \cup {0}
        /\ x.pc # "idle" => x.from = req[r].from /\ x.by = req[r].by
    BY <1>1, <1>2, IdleIsReq DEF ReadIds
  <1> QED BY <1>4, <1>5, ReadReq DEF GoesOn

(* A field of a request is changed.                                        *)
LEMMA WithGoesOn ==
  ASSUME TypeOK, NEW r \in Requests, NEW q \in Req, Read(r, q),
         ~ At(r, "session"), q.pc # "session", q.from = req[r].from, q.by = req[r].by,
         {q.id, q.target} \subseteq ReadIds(r) \cup Rows
  PROVE  GoesOn(r)
  BY ReadReq DEF GoesOn

-----------------------------------------------------------------------------
(* Which steps write what.                                                 *)

(* What a step does to the tables, by the action it is.                    *)
Tables == <<users, nextId, nextToken, grants, decided, changes>>

LEMMA NextCases ==
  ASSUME Next
  PROVE  \/ \E r \in Requests, w \in Browsers, n \in Names :
               SetupSubmit(r, w, n) \/ LoginSubmit(r, w, n)
         \/ \E r \in Requests : Handler(r)
         \/ \E n \in Names, role \in Roles : CreateUserCommand(n, role)
         \/ \E r \in Requests : IssueSession(r)
         \/ \E w \in Browsers : EndSession(w)
         \/ UNCHANGED <<Tables, cookie, signed>>
         \/ /\ grants' = Migrated
            /\ UNCHANGED <<users, nextId, nextToken, decided, changes, cookie, signed>>
  <1>1. ASSUME NEW r \in Requests, NEW w \in Browsers,
               \/ \E t \in Tokens : VisitBookmark(r, w, t)
               \/ \E for \in {"guard", "bookmark"} : Arrive(r, w, for)
        PROVE  UNCHANGED <<Tables, cookie, signed>>
    BY <1>1 DEF VisitBookmark, Arrive, Tables
  <1>2. ASSUME NEW r \in Requests, AskRole(r) \/ AskOverride(r) \/ Abandon(r)
        PROVE  UNCHANGED <<Tables, cookie, signed>>
    BY <1>2 DEF AskRole, AskOverride, Abandon, Tables
  <1>3. ASSUME OpenByCommand \/ Restart
        PROVE  /\ grants' = Migrated
               /\ UNCHANGED <<users, nextId, nextToken, decided, changes, cookie, signed>>
    BY <1>3 DEF OpenByCommand, Restart
  <1> QED BY <1>1, <1>2, <1>3 DEF Next

(* What the handlers write.                                                *)
LEMMA HandlerCases ==
  ASSUME NEW r \in Requests, Handler(r)
  PROVE  /\ UNCHANGED <<cookie, signed>>
         /\ \/ UNCHANGED Tables
            \/ /\ UNCHANGED <<nextToken, grants, decided>>
               /\ \E n \in Names, role \in Roles : Insert(n, role)
            \/ \E b \in Ids :
                 \/ AdminUsersDelete(r, b)
                 \/ \E e \in BOOLEAN : AdminUsersSetEnabled(r, b, e)
            \/ \E role \in Roles : SetRole(r, role)
            \/ \E matrix \in Matrices : SetPermissionOverrides(r, matrix)
            \/ IssueBookmark(r)
  BY DEF Handler, AdminUsersCreate, AdminUsersSetEnabled, AdminUsersDelete, AdminUsersSetRole,
         PermissionStates, SetRole, MatrixIsAdmin, SetPermissionOverrides, IssueBookmark, Tables

(* Who creates an account.                                                 *)
LEMMA EntryCases ==
  ASSUME NEW r, NEW w \in Browsers, NEW n \in Names,
         SetupSubmit(r, w, n) \/ LoginSubmit(r, w, n)
  PROVE  /\ UNCHANGED <<cookie, nextToken, grants, decided>> /\ signed' = signed \cup {<<w, n>>}
         /\ \/ UNCHANGED <<users, nextId, changes>>
            \/ \E role \in Roles : Insert(n, role)
  BY AccessAssumption DEF SetupSubmit, LoginSubmit

LEMMA CookieSteps ==
  ASSUME Next
  PROVE  \/ UNCHANGED <<cookie, signed>>
         \/ \E w \in Browsers, n \in Names :
              UNCHANGED cookie /\ signed' = signed \cup {<<w, n>>}
         \/ \E r \in Requests : IssueSession(r)
         \/ \E w \in Browsers : EndSession(w)
  BY NextCases, HandlerCases, EntryCases DEF CreateUserCommand

LEMMA GrantSteps ==
  ASSUME Next
  PROVE  \/ UNCHANGED <<grants, decided>>
         \/ \E r \in Requests, role \in Roles : SetRole(r, role)
         \/ \E r \in Requests, matrix \in Matrices : SetPermissionOverrides(r, matrix)
         \/ grants' = Migrated /\ UNCHANGED <<decided, users>>
  BY NextCases, HandlerCases, EntryCases DEF CreateUserCommand, IssueSession, EndSession,
     AdminUsersDelete, AdminUsersSetEnabled, IssueBookmark, Tables

LEMMA UserSteps ==
  ASSUME Next
  PROVE  \/ UNCHANGED <<users, nextId>>
         \/ /\ UNCHANGED grants
            /\ \E n \in Names, role \in Roles : Insert(n, role)
         \/ \E r \in Requests : IssueBookmark(r)
         \/ \E r \in Requests, b \in Ids :
              \/ AdminUsersDelete(r, b)
              \/ \E e \in BOOLEAN : AdminUsersSetEnabled(r, b, e)
         \/ \E r \in Requests, role \in Roles : SetRole(r, role)
  BY NextCases, HandlerCases, EntryCases DEF CreateUserCommand, IssueSession, EndSession,
     SetPermissionOverrides, Tables

LEMMA HandlerGoesOn ==
  ASSUME TypeOK, NEW r \in Requests, Handler(r)
  PROVE  ~ At(r, "idle") /\ GoesOn(r)
  <1>1. ASSUME NEW n \in Names, NEW role \in Roles, AdminUsersCreate(r, n, role)
        PROVE  ~ At(r, "idle") /\ GoesOn(r)
    BY <1>1, ReturnGoesOn DEF AdminUsersCreate, At
  <1>2. ASSUME NEW b \in Ids, NEW e \in BOOLEAN, AdminUsersSetEnabled(r, b, e)
        PROVE  ~ At(r, "idle") /\ GoesOn(r)
    BY <1>2, ReturnGoesOn DEF AdminUsersSetEnabled, At
  <1>3. ASSUME NEW b \in Ids, AdminUsersDelete(r, b)
        PROVE  ~ At(r, "idle") /\ GoesOn(r)
    BY <1>3, ReturnGoesOn DEF AdminUsersDelete, At
  <1>4. ASSUME NEW b \in Ids, AdminUsersSetRole(r, b)
        PROVE  ~ At(r, "idle") /\ GoesOn(r)
    <2> DEFINE q == [req[r] EXCEPT !.pc = "ask", !.for = "role", !.asks = users[b].name,
                                   !.target = b]
    <2>1. /\ q \in Req /\ q.pc # "session" /\ q.from = req[r].from /\ q.by = req[r].by
          /\ {q.id, q.target} \subseteq ReadIds(r) \cup Rows
      BY <1>4, ReqFields, RowsAreAccounts
         DEF AdminUsersSetRole, Req, Pc, For, Account, ReadIds
    <2>2. Read(r, q) /\ ~ At(r, "idle") /\ ~ At(r, "session")
      BY <1>4 DEF AdminUsersSetRole, At
    <2> QED BY <2>1, <2>2, WithGoesOn
  <1>5. ASSUME NEW b \in Ids, PermissionStates(r, b)
        PROVE  ~ At(r, "idle") /\ GoesOn(r)
    <2> DEFINE q == [req[r] EXCEPT !.pc = "save", !.target = b]
    <2>1. /\ q \in Req /\ q.pc # "session" /\ q.from = req[r].from /\ q.by = req[r].by
          /\ {q.id, q.target} \subseteq ReadIds(r) \cup Rows
      BY <1>5, ReqFields DEF PermissionStates, Req, Pc, ReadIds
    <2>2. Read(r, q) /\ ~ At(r, "idle") /\ ~ At(r, "session")
      BY <1>5 DEF PermissionStates, At
    <2> QED BY <2>1, <2>2, WithGoesOn
  <1>6. ASSUME NEW role \in Roles, SetRole(r, role)
        PROVE  ~ At(r, "idle") /\ GoesOn(r)
    BY <1>6, ReturnGoesOn DEF SetRole, At
  <1>7. ASSUME MatrixIsAdmin(r)
        PROVE  ~ At(r, "idle") /\ GoesOn(r)
    <2> DEFINE q == [req[r] EXCEPT !.pc = "matrix"]
    <2>1. /\ q \in Req /\ q.pc # "session" /\ q.from = req[r].from /\ q.by = req[r].by
          /\ {q.id, q.target} \subseteq ReadIds(r) \cup Rows
      BY ReqFields DEF Req, Pc, ReadIds
    <2>2. Read(r, q) /\ ~ At(r, "idle") /\ ~ At(r, "session")
      BY <1>7 DEF MatrixIsAdmin, At
    <2> QED BY <2>1, <2>2, WithGoesOn
  <1>8. ASSUME NEW matrix \in Matrices, SetPermissionOverrides(r, matrix)
        PROVE  ~ At(r, "idle") /\ GoesOn(r)
    BY <1>8, ReturnGoesOn DEF SetPermissionOverrides, At
  <1>9. ASSUME IssueBookmark(r)
        PROVE  ~ At(r, "idle") /\ GoesOn(r)
    BY <1>9, ReturnGoesOn DEF IssueBookmark, At
  <1> QED BY <1>1, <1>2, <1>3, <1>4, <1>5, <1>6, <1>7, <1>8, <1>9 DEF Handler

LEMMA AskGoesOn ==
  ASSUME TypeOK, NEW r \in Requests, AskRole(r) \/ AskOverride(r)
  PROVE  ~ At(r, "idle") /\ GoesOn(r)
  <1>1. CASE AskRole(r)
    <2>0. ~ At(r, "idle") /\ ~ At(r, "session")
      BY <1>1 DEF AskRole, At
    <2>1. CASE Answer(r, FALSE)
      BY <2>0, <2>1, AnswerGoesOn
    <2>2. ASSUME NEW b \in Enabled(req[r].asks),
                 Read(r, [req[r] EXCEPT !.pc = "override", !.id = b, !.role = users[b].role])
          PROVE  GoesOn(r)
      <3> DEFINE q == [req[r] EXCEPT !.pc = "override", !.id = b, !.role = users[b].role]
      <3>1. b \in Ids /\ b \in Rows /\ users[b].role \in Roles
        BY EnabledAreRows DEF Account
      <3>2. /\ q \in Req /\ q.pc # "session" /\ q.from = req[r].from /\ q.by = req[r].by
            /\ {q.id, q.target} \subseteq ReadIds(r) \cup Rows
        BY <3>1, ReqFields DEF Req, Pc, ReadIds
      <3> QED BY <2>0, <2>2, <3>2, WithGoesOn
    <2> QED BY <1>1, <2>0, <2>1, <2>2 DEF AskRole
  <1>2. CASE AskOverride(r)
    <2> DEFINE yes == Holds(grants[req[r].id][Asked(r)], req[r].role, Asked(r))
    <2>1. yes \in BOOLEAN
      BY DEF Holds, RoleHasPermission
    <2>2. Answer(r, yes) /\ ~ At(r, "idle") /\ ~ At(r, "session")
      BY <1>2 DEF AskOverride, At
    <2> HIDE DEF yes
    <2> QED BY <2>1, <2>2, AnswerGoesOn
  <1> QED BY <1>1, <1>2

(* A request has shown a password or a link.                               *)
SignsIn(r, for, w, n) ==
  /\ At(r, "idle") /\ SignIn(r, for, w, n)
  /\ for = "password" => <<w, n>> \in signed'

LEMMA RequestSteps ==
  ASSUME TypeOK, Next
  PROVE  \/ UNCHANGED req
         \/ req' = [r \in Requests |-> Idle]
         \/ \E r \in Requests, w \in Browsers, for \in {"guard", "bookmark"} : Arrive(r, w, for)
         \/ \E r \in Requests, w \in Browsers, n \in Names, for \in {"password", "link"} :
              SignsIn(r, for, w, n)
         \/ \E r \in Requests : ~ At(r, "idle") /\ GoesOn(r)
  <1>1. ASSUME NEW r \in Requests,
               AskRole(r) \/ AskOverride(r) \/ Handler(r) \/ Abandon(r) \/ IssueSession(r)
        PROVE  ~ At(r, "idle") /\ GoesOn(r)
    BY <1>1, AskGoesOn, HandlerGoesOn, ReturnGoesOn DEF Abandon, IssueSession, At
  <1>2. ASSUME NEW r \in Requests, NEW w \in Browsers, NEW n \in Names,
               SetupSubmit(r, w, n) \/ LoginSubmit(r, w, n)
        PROVE  SignsIn(r, "password", w, n)
    BY <1>2 DEF SetupSubmit, LoginSubmit, SignsIn
  <1>3. ASSUME NEW r \in Requests, NEW w \in Browsers, NEW t \in Tokens, VisitBookmark(r, w, t)
        PROVE  \E n \in Names : SignsIn(r, "link", w, n)
    BY <1>3, RowsAreAccounts DEF VisitBookmark, SignsIn, Account
  <1> QED
    BY <1>1, <1>2, <1>3 DEF Next, EndSession, CreateUserCommand, OpenByCommand, Restart, Insert

-----------------------------------------------------------------------------
(* Types.                                                                  *)

LEMMA MigratedTypes ==
  ASSUME TypeOK
  PROVE  /\ Migrated \in [Ids -> [Perms -> Decisions]]
         /\ \A b \in Ids, p \in Perms :
              \/ Migrated[b][p] = grants[b][p]
              \/ p = "bookmark_link" /\ Migrated[b][p] = "revoke"
  BY AccessAssumption DEF TypeOK, Migrated, Decisions

LEMMA WriteBookmarkTypes ==
  ASSUME TypeOK, NEW b \in Ids, NEW can \in BOOLEAN
  PROVE  /\ WriteBookmark(b, can) \in [Ids -> [Perms -> Decisions]]
         /\ \A i \in Ids, p \in Perms \ {"bookmark_link"} :
              WriteBookmark(b, can)[i][p] = grants[i][p]
         /\ \A i \in Ids \ {b} : WriteBookmark(b, can)[i] = grants[i]
  BY AccessAssumption DEF TypeOK, WriteBookmark, Decisions

LEMMA InitTypes == Init => TypeOK
  BY AccessAssumption, IdleIsReq DEF Init, TypeOK, Ids, NoDecision, Decisions, At, Idle

LEMMA UsersTypes ==
  ASSUME TypeOK, Next
  PROVE  users' \in [Ids -> Account \cup {NoUser}] /\ nextId' \in 1 .. MaxUsers + 1
  <1>1. CASE UNCHANGED <<users, nextId>>
    BY <1>1 DEF TypeOK
  <1>2. ASSUME NEW n \in Names, NEW role \in Roles, Insert(n, role)
        PROVE  users' \in [Ids -> Account \cup {NoUser}] /\ nextId' \in 1 .. MaxUsers + 1
    <2>1. [name |-> n, role |-> role, enabled |-> TRUE, bookmark |-> TRUE, token |-> 0]
            \in Account
      BY DEF Account
    <2> QED BY <1>2, <2>1, AccessAssumption DEF TypeOK, Insert, Ids
  <1>3. ASSUME NEW r \in Requests, IssueBookmark(r)
        PROVE  users' \in [Ids -> Account \cup {NoUser}] /\ nextId' \in 1 .. MaxUsers + 1
    <2>1. \A b \in Rows : [users[b] EXCEPT !.token = nextToken] \in Account
      BY <1>3, RowsAreAccounts DEF IssueBookmark, Account
    <2> QED BY <1>3, <2>1 DEF TypeOK, IssueBookmark
  <1>4. ASSUME NEW r \in Requests, NEW b \in Ids, AdminUsersDelete(r, b)
        PROVE  users' \in [Ids -> Account \cup {NoUser}] /\ nextId' \in 1 .. MaxUsers + 1
    BY <1>4 DEF TypeOK, AdminUsersDelete
  <1>5. ASSUME NEW r \in Requests, NEW b \in Ids, NEW e \in BOOLEAN,
               AdminUsersSetEnabled(r, b, e)
        PROVE  users' \in [Ids -> Account \cup {NoUser}] /\ nextId' \in 1 .. MaxUsers + 1
    <2>1. [users[b] EXCEPT !.enabled = e] \in Account
      BY <1>5, RowsAreAccounts DEF AdminUsersSetEnabled, Account
    <2> QED BY <1>5, <2>1 DEF TypeOK, AdminUsersSetEnabled
  <1>6. ASSUME NEW r \in Requests, NEW role \in Roles, SetRole(r, role)
        PROVE  users' \in [Ids -> Account \cup {NoUser}] /\ nextId' \in 1 .. MaxUsers + 1
    <2> DEFINE b == req[r].target
    <2>1. users[b] \in Account /\ req[r].can \in BOOLEAN
      BY <1>6, RowsAreAccounts, ReqFields DEF SetRole
    <2>2. [users[b] EXCEPT !.role = role, !.bookmark = req[r].can] \in Account
      BY <2>1 DEF Account
    <2>3. /\ users' = [users EXCEPT ![b] = [users[b] EXCEPT !.role = role, !.bookmark = req[r].can]]
          /\ nextId' = nextId
      BY <1>6 DEF SetRole
    <2> HIDE DEF b
    <2> QED BY <2>2, <2>3 DEF TypeOK
  <1> QED BY <1>1, <1>2, <1>3, <1>4, <1>5, <1>6, UserSteps

LEMMA GrantsTypes ==
  ASSUME TypeOK, Next
  PROVE  grants' \in [Ids -> [Perms -> Decisions]] /\ decided' \in [Ids -> [Perms -> Decisions]]
  <1>1. CASE UNCHANGED <<grants, decided>>
    BY <1>1 DEF TypeOK
  <1>2. ASSUME NEW r \in Requests, NEW role \in Roles, SetRole(r, role)
        PROVE  grants' \in [Ids -> [Perms -> Decisions]] /\ decided' \in [Ids -> [Perms -> Decisions]]
    <2>1. req[r].target \in Ids /\ req[r].can \in BOOLEAN
      BY <1>2, ReqFields DEF SetRole, Rows
    <2> QED BY <1>2, <2>1, WriteBookmarkTypes DEF SetRole, TypeOK
  <1>3. ASSUME NEW r \in Requests, NEW matrix \in Matrices, SetPermissionOverrides(r, matrix)
        PROVE  grants' \in [Ids -> [Perms -> Decisions]] /\ decided' \in [Ids -> [Perms -> Decisions]]
    BY <1>3, AccessAssumption DEF SetPermissionOverrides, TypeOK
  <1>4. CASE grants' = Migrated /\ UNCHANGED <<decided, users>>
    BY <1>4, MigratedTypes DEF TypeOK
  <1> QED BY <1>1, <1>2, <1>3, <1>4, GrantSteps

LEMMA CookieTypes ==
  ASSUME TypeOK, Next
  PROVE  /\ cookie' \in [Browsers -> Session \cup {NoSession}]
         /\ signed' \subseteq Browsers \X Names
  <1>1. CASE UNCHANGED <<cookie, signed>>
    BY <1>1 DEF TypeOK
  <1>2. ASSUME NEW w \in Browsers, NEW n \in Names,
               UNCHANGED cookie, signed' = signed \cup {<<w, n>>}
        PROVE  /\ cookie' \in [Browsers -> Session \cup {NoSession}]
               /\ signed' \subseteq Browsers \X Names
    BY <1>2 DEF TypeOK
  <1>3. ASSUME NEW r \in Requests, IssueSession(r)
        PROVE  /\ cookie' \in [Browsers -> Session \cup {NoSession}]
               /\ signed' \subseteq Browsers \X Names
    <2>1. req[r].by \in Names
      BY <1>3 DEF IssueSession, TypeOK
    <2>2. /\ RestrictedSession(req[r].by) \in Session
          /\ [name |-> req[r].by, restricted |-> FALSE] \in Session
      BY <2>1 DEF RestrictedSession, Session
    <2> QED BY <1>3, <2>2 DEF IssueSession, TypeOK
  <1>4. ASSUME NEW w \in Browsers, EndSession(w)
        PROVE  /\ cookie' \in [Browsers -> Session \cup {NoSession}]
               /\ signed' \subseteq Browsers \X Names
    BY <1>4 DEF EndSession, TypeOK
  <1> QED BY <1>1, <1>2, <1>3, <1>4, CookieSteps

(* How a request that signs in begins.                                     *)
LEMMA SignInReq ==
  ASSUME TypeOK, NEW r \in Requests, NEW w \in Browsers, NEW n \in Names,
         NEW for \in {"password", "link"}, SignIn(r, for, w, n)
  PROVE  /\ req' \in [Requests -> Req]
         /\ req'[r].pc = "session" /\ req'[r].for = for
         /\ req'[r].from = w /\ req'[r].by = n /\ req'[r].id = 0 /\ req'[r].target = 0
         /\ \A o \in Requests \ {r} : req'[o] = req[o]
  <1> DEFINE q == [Idle EXCEPT !.pc = "session", !.for = for, !.from = w, !.by = n]
  <1>1. q \in Req
    BY IdleIsReq DEF Req, Pc, For
  <1>2. q.pc = "session" /\ q.for = for /\ q.from = w /\ q.by = n /\ q.id = 0 /\ q.target = 0
    BY DEF Idle
  <1>3. Read(r, q)
    BY DEF SignIn
  <1> HIDE DEF q
  <1> QED BY <1>1, <1>2, <1>3, ReadReq

(* How one that is admitted begins.                                        *)
LEMMA ArriveReq ==
  ASSUME TypeOK, NEW r \in Requests, NEW w \in Browsers, NEW for \in {"guard", "bookmark"},
         Arrive(r, w, for)
  PROVE  /\ req' \in [Requests -> Req] /\ req'[r].pc = "ask"
         /\ req'[r].from = w /\ req'[r].by = cookie[w].name
         /\ req'[r].id = 0 /\ req'[r].target = 0
         /\ \A o \in Requests \ {r} : req'[o] = req[o]
  <1> DEFINE q == [Idle EXCEPT !.pc = "ask", !.for = for, !.from = w, !.by = cookie[w].name,
                               !.asks = cookie[w].name]
  <1>1. cookie[w].name \in Names
    BY DEF Arrive, VerifySession, TypeOK, Session
  <1>2. q \in Req
    BY <1>1, IdleIsReq DEF Req, Pc, For
  <1>3. /\ q.pc = "ask" /\ q.from = w /\ q.by = cookie[w].name /\ Read(r, q)
        /\ q.id = 0 /\ q.target = 0
    BY DEF Arrive, Idle
  <1> HIDE DEF q
  <1> QED BY <1>2, <1>3, ReadReq

LEMMA RequestTypes ==
  ASSUME TypeOK, Next
  PROVE  /\ req' \in [Requests -> Req]
         /\ \A r \in Requests :
              req'[r].pc = "session" => req'[r].from \in Browsers /\ req'[r].by \in Names
  <1>1. CASE req' = [r \in Requests |-> Idle]
    BY <1>1, IdleIsReq DEF Idle
  <1>2. CASE UNCHANGED req
    BY <1>2 DEF TypeOK, At
  <1>3. ASSUME NEW r \in Requests, NEW w \in Browsers, NEW for \in {"guard", "bookmark"},
               Arrive(r, w, for)
        PROVE  /\ req' \in [Requests -> Req]
               /\ \A o \in Requests :
                    req'[o].pc = "session" => req'[o].from \in Browsers /\ req'[o].by \in Names
    BY <1>3, ArriveReq DEF TypeOK, At
  <1>4. ASSUME NEW r \in Requests, NEW w \in Browsers, NEW n \in Names,
               NEW for \in {"password", "link"}, SignsIn(r, for, w, n)
        PROVE  /\ req' \in [Requests -> Req]
               /\ \A o \in Requests :
                    req'[o].pc = "session" => req'[o].from \in Browsers /\ req'[o].by \in Names
    <2>1. /\ req' \in [Requests -> Req] /\ req'[r].from = w /\ req'[r].by = n
          /\ \A o \in Requests \ {r} : req'[o] = req[o]
      BY <1>4, SignInReq DEF SignsIn
    <2> QED BY <2>1 DEF TypeOK, At
  <1>5. ASSUME NEW r \in Requests, GoesOn(r)
        PROVE  /\ req' \in [Requests -> Req]
               /\ \A o \in Requests :
                    req'[o].pc = "session" => req'[o].from \in Browsers /\ req'[o].by \in Names
    BY <1>5 DEF GoesOn, TypeOK, At
  <1> QED BY <1>1, <1>2, <1>3, <1>4, <1>5, RequestSteps

LEMMA CountTypes ==
  ASSUME TypeOK, Next
  PROVE  nextToken' \in 1 .. MaxTokens + 1 /\ changes' \in 0 .. MaxChanges
  <1>1. UNCHANGED changes \/ Change
    BY NextCases, HandlerCases, EntryCases DEF CreateUserCommand, IssueSession, EndSession,
       AdminUsersDelete, AdminUsersSetEnabled, SetRole, SetPermissionOverrides, IssueBookmark,
       Insert, Tables
  <1>2. UNCHANGED nextToken \/ (nextToken \in Tokens /\ nextToken' = nextToken + 1)
    BY NextCases, HandlerCases, EntryCases DEF CreateUserCommand, IssueSession, EndSession,
       AdminUsersDelete, AdminUsersSetEnabled, SetRole, SetPermissionOverrides, IssueBookmark,
       Tables
  <1> QED BY <1>1, <1>2, AccessAssumption DEF TypeOK, Change, Tokens

LEMMA NextTypes == TypeOK /\ [Next]_vars => TypeOK'
  <1>1. ASSUME TypeOK, Next PROVE TypeOK'
    BY <1>1, UsersTypes, GrantsTypes, CookieTypes, RequestTypes, CountTypes DEF TypeOK, At
  <1>2. ASSUME TypeOK, UNCHANGED vars PROVE TypeOK'
    BY <1>2 DEF vars, TypeOK, At
  <1> QED BY <1>1, <1>2

(* Every table, cookie and request keeps its form.                         *)
THEOREM TypeCorrect == Spec => []TypeOK
  BY InitTypes, NextTypes, PTL DEF Spec

-----------------------------------------------------------------------------
(* Decisions.                                                              *)

LEMMA NextDecisions ==
  ASSUME TypeOK, OverridesAreDecided, Next
  PROVE  OverridesAreDecided'
  <1>1. CASE UNCHANGED <<grants, decided>>
    BY <1>1 DEF OverridesAreDecided
  <1>2. ASSUME NEW r \in Requests, NEW role \in Roles, SetRole(r, role)
        PROVE  OverridesAreDecided'
    <2>1. req[r].target \in Ids /\ req[r].can \in BOOLEAN
      BY <1>2, ReqFields DEF SetRole, Rows
    <2>2. grants' = WriteBookmark(req[r].target, req[r].can) /\ decided' = decided
      BY <1>2 DEF SetRole
    <2> QED BY <2>1, <2>2, WriteBookmarkTypes DEF OverridesAreDecided
  <1>3. ASSUME NEW r \in Requests, NEW matrix \in Matrices, SetPermissionOverrides(r, matrix)
        PROVE  OverridesAreDecided'
    BY <1>3 DEF SetPermissionOverrides, OverridesAreDecided, TypeOK
  <1>4. CASE grants' = Migrated /\ UNCHANGED <<decided, users>>
    BY <1>4, MigratedTypes DEF OverridesAreDecided
  <1> QED BY <1>1, <1>2, <1>3, <1>4, GrantSteps

(* Whatever roles are changed, accounts disabled and programs restarted    *)
(* while the matrix is being saved, the overrides in force are the ones an *)
(* administrator saved, for every permission but the bookmark link.        *)
THEOREM DecisionsStay == Spec => []OverridesAreDecided
  <1>1. Init => OverridesAreDecided
    BY DEF Init, OverridesAreDecided
  <1>2. TypeOK /\ OverridesAreDecided /\ [Next]_vars => OverridesAreDecided'
    BY NextDecisions DEF vars, OverridesAreDecided
  <1> QED BY <1>1, <1>2, TypeCorrect, PTL DEF Spec

-----------------------------------------------------------------------------
(* Sessions.                                                               *)

LEMMA NextFullIsSigned ==
  ASSUME TypeOK, FullIsSigned, DueIsSigned, Next
  PROVE  FullIsSigned' /\ signed \subseteq signed'
  <1>1. CASE UNCHANGED <<cookie, signed>>
    BY <1>1 DEF FullIsSigned
  <1>2. ASSUME NEW w \in Browsers, NEW n \in Names,
               UNCHANGED cookie, signed' = signed \cup {<<w, n>>}
        PROVE  FullIsSigned' /\ signed \subseteq signed'
    BY <1>2 DEF FullIsSigned
  <1>3. ASSUME NEW r \in Requests, IssueSession(r)
        PROVE  FullIsSigned' /\ signed \subseteq signed'
    <2> DEFINE w == req[r].from  n == req[r].by
    <2>1. /\ signed' = signed
          /\ \A v \in Browsers \ {w} : cookie'[v] = cookie[v]
      BY <1>3 DEF IssueSession, TypeOK
    <2>2. /\ req[r].for = "link" => cookie'[w] = RestrictedSession(n)
          /\ req[r].for # "link" => cookie'[w] = [name |-> n, restricted |-> FALSE]
      BY <1>3 DEF IssueSession, TypeOK
    <2>3. RestrictedSession(n).restricted
      BY DEF RestrictedSession
    <2>4. req[r].for # "link" => <<w, n>> \in signed
      BY <1>3 DEF IssueSession, DueIsSigned
    <2> QED BY <2>1, <2>2, <2>3, <2>4 DEF FullIsSigned
  <1>4. ASSUME NEW w \in Browsers, EndSession(w)
        PROVE  FullIsSigned' /\ signed \subseteq signed'
    BY <1>4 DEF EndSession, TypeOK, FullIsSigned
  <1> QED BY <1>1, <1>2, <1>3, <1>4, CookieSteps

LEMMA NextAdmitted ==
  ASSUME TypeOK, FullIsSigned, DueIsSigned, AdmittedIsFull, Next
  PROVE  DueIsSigned' /\ AdmittedIsFull'
  <1> USE DEF DueIsSigned, AdmittedIsFull, At
  <1>1. signed \subseteq signed'
    BY NextFullIsSigned
  <1>2. CASE UNCHANGED req
    BY <1>1, <1>2
  <1>3. CASE req' = [r \in Requests |-> Idle]
    BY <1>3 DEF Idle
  <1>4. ASSUME NEW r \in Requests, NEW w \in Browsers, NEW for \in {"guard", "bookmark"},
               Arrive(r, w, for)
        PROVE  DueIsSigned' /\ AdmittedIsFull'
    <2>1. <<w, cookie[w].name>> \in signed
      BY <1>4 DEF Arrive, VerifySession, FullIsSigned
    <2> QED BY <1>1, <1>4, <2>1, ArriveReq
  <1>5. ASSUME NEW r \in Requests, NEW w \in Browsers, NEW n \in Names,
               NEW for \in {"password", "link"}, SignsIn(r, for, w, n)
        PROVE  DueIsSigned' /\ AdmittedIsFull'
    BY <1>1, <1>5, SignInReq DEF SignsIn
  <1>6. ASSUME NEW r \in Requests, ~ At(r, "idle"), GoesOn(r)
        PROVE  DueIsSigned' /\ AdmittedIsFull'
    BY <1>1, <1>6 DEF GoesOn
  <1> QED BY <1>2, <1>3, <1>4, <1>5, <1>6, RequestSteps

LEMMA InvHolds == Spec => []Inv
  <1>1. Init => Inv
    BY InitTypes DEF Init, Inv, OverridesAreDecided, FullIsSigned, DueIsSigned, AdmittedIsFull,
                     At, Idle
  <1>2. Inv /\ [Next]_vars => Inv'
    <2>1. ASSUME Inv, Next PROVE Inv'
      BY <2>1, NextTypes, NextDecisions, NextFullIsSigned, NextAdmitted DEF Inv
    <2>2. ASSUME Inv, UNCHANGED vars PROVE Inv'
      BY <2>2, NextTypes
         DEF vars, Inv, OverridesAreDecided, FullIsSigned, DueIsSigned, AdmittedIsFull, At
    <2> QED BY <2>1, <2>2
  <1> QED BY <1>1, <1>2, PTL DEF Spec

(* A bookmark session never gets past a guard: whoever is admitted has     *)
(* typed the password in that browser, however sign-ins, links and the     *)
(* answers to them cross.                                                  *)
THEOREM OnlyFullIsAdmitted == Spec => []AdmittedIsFull
  <1>1. Inv => AdmittedIsFull
    BY DEF Inv
  <1> QED BY <1>1, InvHolds, PTL

-----------------------------------------------------------------------------
(* Gains.                                                                  *)

(* An id is given out once: the overrides an account left behind when it   *)
(* was deleted are never another account's.                                *)
FreeIds == \A b \in Ids : b >= nextId => users[b] = NoUser

LEMMA NextFreeIds ==
  ASSUME TypeOK, FreeIds, Next
  PROVE  FreeIds'
  <1>1. CASE UNCHANGED <<users, nextId>>
    BY <1>1 DEF FreeIds
  <1>2. ASSUME NEW n \in Names, NEW role \in Roles, Insert(n, role)
        PROVE  FreeIds'
    BY <1>2, AccessAssumption DEF FreeIds, Insert, TypeOK, Ids
  <1>3. ASSUME NEW r \in Requests, IssueBookmark(r)
        PROVE  FreeIds'
    BY <1>3 DEF FreeIds, IssueBookmark, Rows
  <1>4. ASSUME NEW r \in Requests, NEW b \in Ids, AdminUsersDelete(r, b)
        PROVE  FreeIds'
    BY <1>4 DEF FreeIds, AdminUsersDelete, TypeOK
  <1>5. ASSUME NEW r \in Requests, NEW b \in Rows, UNCHANGED nextId,
               \A o \in Ids \ {b} : users'[o] = users[o]
        PROVE  FreeIds'
    BY <1>5 DEF FreeIds, Rows
  <1>6. ASSUME NEW r \in Requests, NEW b \in Ids, NEW e \in BOOLEAN,
               AdminUsersSetEnabled(r, b, e)
        PROVE  FreeIds'
    BY <1>5, <1>6 DEF AdminUsersSetEnabled, TypeOK
  <1>7. ASSUME NEW r \in Requests, NEW role \in Roles, SetRole(r, role)
        PROVE  FreeIds'
    <2>1. req[r].target \in Rows /\ UNCHANGED nextId
      BY <1>7 DEF SetRole
    <2>2. \A o \in Ids \ {req[r].target} : users'[o] = users[o]
      BY <1>7 DEF SetRole, TypeOK
    <2> QED BY <1>5, <2>1, <2>2
  <1> QED BY <1>1, <1>2, <1>3, <1>4, <1>6, <1>7, UserSteps

LEMMA FreeIdsHold == Spec => []FreeIds
  <1>1. Init => FreeIds
    BY DEF Init, FreeIds
  <1>2. TypeOK /\ FreeIds /\ [Next]_vars => FreeIds'
    BY NextFreeIds DEF vars, FreeIds
  <1> QED BY <1>1, <1>2, TypeCorrect, PTL DEF Spec

Served ==
  \E r \in Requests : req[r].pc \in {"serve", "setRole", "save"} /\ req'[r].pc = "idle"

(* The migration never gives a permission.                                 *)
LEMMA MigratedTakes ==
  ASSUME TypeOK, NEW b \in Ids, NEW p \in Perms, NEW role, Holds(Migrated[b][p], role, p)
  PROVE  Holds(grants[b][p], role, p)
  BY MigratedTypes DEF Holds

LEMMA NextGains ==
  ASSUME TypeOK, FreeIds, Next, NEW b \in Rows \cap Rows', NEW p \in Perms,
         ~ Effective(b, p), Effective(b, p)'
  PROVE  Served
  <1>1. ASSUME NEW r \in Requests, NEW role \in Roles, SetRole(r, role)
        PROVE  Served
    BY <1>1, ReturnGoesOn DEF SetRole, At, Served
  <1>2. ASSUME NEW r \in Requests, NEW matrix \in Matrices, SetPermissionOverrides(r, matrix)
        PROVE  Served
    BY <1>2, ReturnGoesOn DEF SetPermissionOverrides, At, Served
  <1>3. ASSUME NEW r \in Requests, NEW o \in Ids,
               AdminUsersDelete(r, o) \/ \E e \in BOOLEAN : AdminUsersSetEnabled(r, o, e)
        PROVE  Served
    BY <1>3, ReturnGoesOn DEF AdminUsersDelete, AdminUsersSetEnabled, At, Served
  <1>4. CASE grants' = Migrated /\ UNCHANGED users
    BY <1>4, MigratedTakes, RowsAreAccounts DEF Effective
  <1>5. CASE UNCHANGED <<grants, users>>
    BY <1>5 DEF Effective
  <1>6. ASSUME NEW n \in Names, NEW role \in Roles, Insert(n, role), UNCHANGED grants
        PROVE  FALSE
    <2>1. b # nextId /\ b \in Ids
      BY <1>6 DEF FreeIds, Rows, Insert, TypeOK
    <2>2. users'[b] = users[b]
      BY <1>6, <2>1 DEF Insert, TypeOK
    <2> QED BY <1>6, <2>2 DEF Effective
  <1>7. ASSUME NEW r \in Requests, IssueBookmark(r)
        PROVE  FALSE
    <2>1. users[b] \in Account /\ b \in Ids
      BY RowsAreAccounts
    <2>2. users'[b].enabled = users[b].enabled /\ users'[b].role = users[b].role
      BY <1>7, <2>1 DEF IssueBookmark, Account
    <2> QED BY <1>7, <2>2 DEF Effective, IssueBookmark
  <1>8. CASE UNCHANGED <<users, nextId>>
    BY <1>1, <1>2, <1>4, <1>5, <1>8, GrantSteps
  <1> QED BY <1>1, <1>3, <1>6, <1>7, <1>8, UserSteps

(* No restart, migration, sign-in or bookmark link gives an account a      *)
(* permission: only the write of a guarded request does.                   *)
THEOREM GainsOnlyServed == Spec => GainsAreServed
  <1>1. TypeOK /\ FreeIds /\ [Next]_vars =>
          [\A b \in Rows \cap Rows', p \in Perms :
             ~ Effective(b, p) /\ Effective(b, p)' =>
               \E r \in Requests : /\ req[r].pc \in {"serve", "setRole", "save"}
                                   /\ req'[r].pc = "idle"]_vars
    BY NextGains DEF Served
  <1> QED BY <1>1, TypeCorrect, FreeIdsHold, PTL DEF Spec, GainsAreServed

-----------------------------------------------------------------------------
(* Newcomers.                                                              *)

(* Nobody has decided anything, nor is about to, of an id not given out.   *)
FreeIdsUntouched ==
  \A b \in Ids : b >= nextId =>
    grants[b] = NoDecision /\ \A r \in Requests : b \notin ReadIds(r)

LEMMA StepsLeaveFreeIds ==
  ASSUME TypeOK, FreeIds, FreeIdsUntouched, Next, NEW b \in Ids, b >= nextId
  PROVE  /\ grants'[b] = NoDecision
         /\ \A r \in Requests : b \notin {req'[r].id, req'[r].target}
  <1>1. b \notin Rows /\ b # 0
    BY DEF FreeIds, Rows, Ids
  <1>2. grants[b] = NoDecision /\ \A r \in Requests : b \notin ReadIds(r)
    BY DEF FreeIdsUntouched
  <1>3. grants'[b] = NoDecision
    <2>1. ASSUME NEW r \in Requests, NEW role \in Roles, SetRole(r, role)
          PROVE  grants'[b] = grants[b]
      <3>1. req[r].target \in Rows /\ grants' = WriteBookmark(req[r].target, req[r].can)
        BY <2>1 DEF SetRole
      <3> QED BY <1>1, <3>1 DEF WriteBookmark, TypeOK
    <2>2. ASSUME NEW r \in Requests, NEW matrix \in Matrices, SetPermissionOverrides(r, matrix)
          PROVE  grants'[b] = grants[b]
      <3>1. b # req[r].target
        BY <1>2 DEF ReadIds
      <3> QED BY <2>2, <3>1 DEF SetPermissionOverrides, TypeOK
    <2>3. Migrated[b] = grants[b]
      BY <1>1 DEF Migrated
    <2> QED BY <1>2, <2>1, <2>2, <2>3, GrantSteps
  <1>4. ASSUME NEW r \in Requests
        PROVE  b \notin {req'[r].id, req'[r].target}
    <2>1. CASE UNCHANGED req
      BY <1>2, <2>1 DEF ReadIds
    <2>2. CASE req' = [o \in Requests |-> Idle]
      BY <1>1, <2>2 DEF Idle
    <2>3. ASSUME NEW o \in Requests, NEW w \in Browsers, NEW for \in {"guard", "bookmark"},
                 Arrive(o, w, for)
          PROVE  b \notin {req'[r].id, req'[r].target}
      BY <1>1, <1>2, <2>3, ArriveReq DEF ReadIds
    <2>4. ASSUME NEW o \in Requests, NEW w \in Browsers, NEW n \in Names,
                 NEW for \in {"password", "link"}, SignsIn(o, for, w, n)
          PROVE  b \notin {req'[r].id, req'[r].target}
      BY <1>1, <1>2, <2>4, SignInReq DEF SignsIn, ReadIds
    <2>5. ASSUME NEW o \in Requests, GoesOn(o)
          PROVE  b \notin {req'[r].id, req'[r].target}
      BY <1>1, <1>2, <2>5 DEF GoesOn, ReadIds
    <2> QED BY <2>1, <2>2, <2>3, <2>4, <2>5, RequestSteps
  <1> QED BY <1>3, <1>4

LEMMA NextFreeIdsUntouched ==
  ASSUME TypeOK, FreeIds, FreeIdsUntouched, Next
  PROVE  FreeIdsUntouched'
  <1>1. nextId' = nextId \/ nextId' = nextId + 1
    BY UserSteps DEF Insert, IssueBookmark, AdminUsersDelete, AdminUsersSetEnabled, SetRole
  <1>2. \A b \in Ids : b >= nextId' => b >= nextId
    BY <1>1 DEF TypeOK, Ids
  <1> QED BY <1>2, StepsLeaveFreeIds DEF FreeIdsUntouched, ReadIds

LEMMA FreeIdsUntouchedHold == Spec => []FreeIdsUntouched
  <1>1. Init => FreeIdsUntouched
    BY DEF Init, FreeIdsUntouched, ReadIds, Idle, Ids
  <1>2. TypeOK /\ FreeIds /\ FreeIdsUntouched /\ [Next]_vars => FreeIdsUntouched'
    BY NextFreeIdsUntouched DEF vars, FreeIdsUntouched, ReadIds
  <1> QED BY <1>1, <1>2, TypeCorrect, FreeIdsHold, PTL DEF Spec

(* Only an INSERT makes a row, at the next id.                             *)
LEMMA NewcomersAreNext ==
  ASSUME TypeOK, Next, NEW b \in Rows' \ Rows
  PROVE  b \in Ids /\ b = nextId
  <1>1. b \in Ids /\ users[b] = NoUser /\ users'[b] # NoUser
    BY DEF Rows
  <1>2. ASSUME NEW n \in Names, NEW role \in Roles, Insert(n, role)
        PROVE  b = nextId
    BY <1>1, <1>2 DEF Insert, TypeOK
  <1>3. ASSUME NEW r \in Requests, IssueBookmark(r)
        PROVE  FALSE
    BY <1>1, <1>3 DEF IssueBookmark, Rows
  <1>4. ASSUME NEW r \in Requests, NEW o \in Ids,
               AdminUsersDelete(r, o) \/ \E e \in BOOLEAN : AdminUsersSetEnabled(r, o, e)
        PROVE  FALSE
    BY <1>1, <1>4 DEF AdminUsersDelete, AdminUsersSetEnabled, TypeOK, Rows
  <1>5. ASSUME NEW r \in Requests, NEW role \in Roles, SetRole(r, role)
        PROVE  FALSE
    <2>1. req[r].target \in Rows /\ b # req[r].target
      BY <1>1, <1>5 DEF SetRole, Rows
    <2> QED BY <1>1, <1>5, <2>1 DEF SetRole, TypeOK
  <1> QED BY <1>1, <1>2, <1>3, <1>4, <1>5, UserSteps

(* Whatever a deleted account left behind, overrides or requests under way,*)
(* an account made later starts from its role alone.                       *)
THEOREM NewcomersAreClean == Spec => NewcomersInheritNothing
  <1>1. TypeOK /\ FreeIds /\ FreeIdsUntouched /\ [Next]_vars =>
          [\A b \in Rows' \ Rows :
             /\ grants'[b] = NoDecision
             /\ \A r \in Requests : b \notin {req'[r].id, req'[r].target}]_vars
    <2>1. ASSUME TypeOK, FreeIds, FreeIdsUntouched, Next, NEW b \in Rows' \ Rows
          PROVE  /\ grants'[b] = NoDecision
                 /\ \A r \in Requests : b \notin {req'[r].id, req'[r].target}
      <3>1. b \in Ids /\ b >= nextId
        BY <2>1, NewcomersAreNext DEF TypeOK
      <3> QED BY <2>1, <3>1, StepsLeaveFreeIds
    <2> QED BY <2>1
  <1> QED BY <1>1, TypeCorrect, FreeIdsHold, FreeIdsUntouchedHold, PTL
        DEF Spec, NewcomersInheritNothing
=============================================================================
