------------------------- MODULE UserAccountsProofs -------------------------
(***************************************************************************)
(* Proofs about UserAccounts for every set of usernames, addresses and     *)
(* concurrent requests, and every bound.                                   *)
(***************************************************************************)
EXTENDS UserAccounts, FiniteSetTheorems, TLAPS

(* The id sequence is ahead of the table: what is inserted is a new row.   *)
Unborn == \A b \in Ids : b >= nextId => users[b] = NoUser

(* An insert that is pending was asked for by somebody who was signed in:  *)
(* it is never the first row.                                              *)
InsertsLater ==
  \A r \in Requests : At(r, "insert") => nextId > 1 /\ req[r].name \in Names

AdminInv == TypeOK /\ Unborn /\ InsertsLater /\ AnAdminRemains

-----------------------------------------------------------------------------
(* What each way of writing the table does to its rows.                    *)

LEMMA RowsAreAccounts ==
  ASSUME TypeOK, NEW b \in Rows
  PROVE  b \in Ids /\ users[b] \in Account
  BY DEF TypeOK, Rows

LEMMA InsertRow ==
  ASSUME TypeOK, Unborn, NEW row \in Account, Insert(row)
  PROVE  /\ users' \in [Ids -> Account \cup {NoUser}] /\ nextId' \in 1 .. MaxUsers + 1
         /\ nextId \in Ids /\ nextId' = nextId + 1 /\ nextId \notin Rows
         /\ Rows' = Rows \cup {nextId}
         /\ users'[nextId] = row
         /\ \A b \in Ids \ {nextId} : users'[b] = users[b]
         /\ Unborn'
  BY AccountsAssumption, NoUserAssumption DEF TypeOK, Unborn, Insert, Ids, Rows

LEMMA EditRow ==
  ASSUME TypeOK, NEW b \in Rows, NEW row \in Account, users' = [users EXCEPT ![b] = row]
  PROVE  /\ users' \in [Ids -> Account \cup {NoUser}]
         /\ Rows' = Rows
         /\ users'[b] = row
         /\ \A o \in Ids \ {b} : users'[o] = users[o]
  BY NoUserAssumption DEF TypeOK, Rows

LEMMA DeleteRow ==
  ASSUME TypeOK, NEW b \in Rows, users' = [users EXCEPT ![b] = NoUser]
  PROVE  /\ users' \in [Ids -> Account \cup {NoUser}]
         /\ Rows' = Rows \ {b}
         /\ \A o \in Ids \ {b} : users'[o] = users[o]
  BY DEF TypeOK, Rows

(* Each of the single-row updates, as an edit of one row.                  *)
LEMMA RoleEdit ==
  ASSUME TypeOK, NEW b \in Rows, NEW role \in Roles,
         users' = [users EXCEPT ![b].role = role]
  PROVE  LET row == [users[b] EXCEPT !.role = role]
         IN row \in Account /\ users' = [users EXCEPT ![b] = row]
  <1>1. users[b] \in Account
    BY RowsAreAccounts
  <1> QED BY <1>1 DEF Account

LEMMA EnabledEdit ==
  ASSUME TypeOK, NEW b \in Rows, NEW e \in BOOLEAN,
         users' = [users EXCEPT ![b].enabled = e]
  PROVE  LET row == [users[b] EXCEPT !.enabled = e]
         IN row \in Account /\ users' = [users EXCEPT ![b] = row]
  <1>1. users[b] \in Account
    BY RowsAreAccounts
  <1> QED BY <1>1 DEF Account

LEMMA EmailEdit ==
  ASSUME TypeOK, NEW b \in Rows, NEW e \in Emails \cup {NoEmail},
         users' = [users EXCEPT ![b].email = e]
  PROVE  LET row == [users[b] EXCEPT !.email = e]
         IN row \in Account /\ users' = [users EXCEPT ![b] = row]
  <1>1. users[b] \in Account
    BY RowsAreAccounts
  <1> QED BY <1>1 DEF Account

LEMMA InviteEdit ==
  ASSUME TypeOK, NEW b \in Rows,
         users' = [users EXCEPT ![b].invite = 0, ![b].joined = TRUE]
  PROVE  LET row == [users[b] EXCEPT !.invite = 0, !.joined = TRUE]
         IN row \in Account /\ users' = [users EXCEPT ![b] = row]
  <1>1. users[b] \in Account
    BY RowsAreAccounts
  <1> QED BY <1>1 DEF Account, TypeOK, Rows

LEMMA ResetEdit ==
  ASSUME TypeOK, NEW b \in Rows, users' = [users EXCEPT ![b].reset = 0]
  PROVE  LET row == [users[b] EXCEPT !.reset = 0]
         IN row \in Account /\ users' = [users EXCEPT ![b] = row]
  <1>1. users[b] \in Account
    BY RowsAreAccounts
  <1> QED BY <1>1 DEF Account

(* A token is written to some rows, and nothing else of them changes.      *)
LEMMA IssueEdit ==
  ASSUME TypeOK, NEW r, NEW S \in SUBSET Rows, NEW kind \in {"invite", "reset"},
         IssueToken(r, kind, S)
  PROVE  /\ users' \in [Ids -> Account \cup {NoUser}]
         /\ Rows' = Rows
         /\ nextToken \in Tokens /\ nextToken' = nextToken + 1
         /\ \A b \in Ids \ S : users'[b] = users[b]
         /\ \A b \in S : users'[b] = IF kind = "invite"
                                     THEN [users[b] EXCEPT !.invite = nextToken]
                                     ELSE [users[b] EXCEPT !.reset = nextToken]
  <1>1. \A b \in Rows : users[b] \in Account /\ b \in Ids
    BY RowsAreAccounts
  <1>2. nextToken \in Tokens /\ nextToken' = nextToken + 1
    BY DEF IssueToken
  <1>3. \A b \in Rows : /\ [users[b] EXCEPT !.invite = nextToken] \in Account
                        /\ [users[b] EXCEPT !.reset = nextToken] \in Account
    BY <1>1, <1>2 DEF Account
  <1>4. /\ \A b \in Ids \ S : users'[b] = users[b]
        /\ \A b \in S : users'[b] = IF kind = "invite"
                                    THEN [users[b] EXCEPT !.invite = nextToken]
                                    ELSE [users[b] EXCEPT !.reset = nextToken]
    BY <1>1 DEF IssueToken
  <1>5. users' \in [Ids -> Account \cup {NoUser}]
    BY <1>3, <1>4 DEF IssueToken, TypeOK
  <1>6. Rows' = Rows
    <2>1. \A b \in S : b \in Rows /\ users'[b] # NoUser
      BY <1>3, <1>4, NoUserAssumption
    <2>2. \A b \in Ids : users'[b] # NoUser <=> users[b] # NoUser
      BY <2>1, <1>4 DEF Rows
    <2> QED BY <2>2 DEF Rows
  <1> QED BY <1>2, <1>4, <1>5, <1>6

LEMMA NewRowIsAccount ==
  ASSUME NEW n \in Names, NEW role \in Roles, NEW e \in Emails \cup {NoEmail},
         NEW t \in Tokens \cup {0}
  PROVE  Row(n, role, e, t) \in Account
  BY DEF Row, Account

(* The request table after a read and after a return.                      *)
LEMMA ReadReq ==
  ASSUME TypeOK, NEW r \in Requests, NEW q \in Req, Read(r, q)
  PROVE  /\ req' \in [Requests -> Req] /\ req'[r] = q
         /\ \A o \in Requests \ {r} : req'[o] = req[o]
  BY DEF TypeOK, Read

LEMMA ReturnReq ==
  ASSUME TypeOK, NEW r \in Requests, Return(r)
  PROVE  /\ req' \in [Requests -> Req] /\ req'[r] = Idle
         /\ \A o \in Requests \ {r} : req'[o] = req[o]
  <1>1. Idle \in Req
    BY DEF Idle, Req, Pc, Roles
  <1> QED BY <1>1, ReadReq DEF Return

(* The rows of the table have room below every bound; more than one        *)
(* enabled administrator leaves another one.                               *)
LEMMA AdminsFinite ==
  IsFiniteSet(EnabledAdmins)
  <1>1. IsFiniteSet(1 .. MaxUsers)
    BY FS_Interval, AccountsAssumption
  <1>2. EnabledAdmins \subseteq 1 .. MaxUsers
    BY DEF EnabledAdmins, Rows, Ids
  <1> QED BY <1>1, <1>2, FS_Subset

LEMMA AnotherAdmin ==
  ASSUME TypeOK, NEW b, NotTheLast(b), EnabledAdmins # {}
  PROVE  \E o \in EnabledAdmins : o # b
  <1>1. CASE b \notin EnabledAdmins
    BY <1>1
  <1>2. CASE b \in EnabledAdmins
    <2>1. Cardinality(EnabledAdmins) > 1
      BY <1>2 DEF NotTheLast
    <2>2. Cardinality(EnabledAdmins \ {b}) = Cardinality(EnabledAdmins) - 1
      BY <1>2, AdminsFinite, FS_RemoveElement
    <2>3. IsFiniteSet(EnabledAdmins \ {b}) /\ Cardinality(EnabledAdmins) \in Nat
      BY <1>2, AdminsFinite, FS_RemoveElement, FS_CardinalityType
    <2>4. EnabledAdmins \ {b} # {}
      BY <2>1, <2>2, <2>3, FS_EmptySet
    <2> QED BY <2>4
  <1> QED BY <1>1, <1>2

-----------------------------------------------------------------------------
(* The administrators.  An enabled administrator other than the row that   *)
(* is written is still one afterwards.                                     *)
LEMMA AdminStays ==
  ASSUME NEW b \in EnabledAdmins, b \in Rows', users'[b] = users[b]
  PROVE  EnabledAdmins' # {}
  BY DEF EnabledAdmins

LEMMA AdminInit == Init => AdminInv
  <1> SUFFICES ASSUME Init PROVE AdminInv
    OBVIOUS
  <1>1. Idle \in Req /\ Idle.pc = "idle"
    BY DEF Idle, Req, Pc, Roles
  <1>2. TypeOK
    BY <1>1, AccountsAssumption DEF Init, TypeOK
  <1>3. Unborn /\ AnAdminRemains
    BY AccountsAssumption DEF Init, Unborn, AnAdminRemains
  <1>4. InsertsLater
    BY <1>1 DEF Init, InsertsLater, At
  <1> QED BY <1>2, <1>3, <1>4 DEF AdminInv

(* A request that only reads leaves the table alone.                       *)
LEMMA AdminRead ==
  ASSUME AdminInv, NEW r \in Requests, NEW q \in Req, Read(r, q),
         q.pc = "insert" => nextId > 1 /\ q.name \in Names,
         UNCHANGED <<users, nextId, nextToken, spent>>
  PROVE  AdminInv'
  <1>1. req' \in [Requests -> Req] /\ req'[r] = q
        /\ \A o \in Requests \ {r} : req'[o] = req[o]
    BY ReadReq DEF AdminInv
  <1>2. TypeOK'
    BY <1>1 DEF AdminInv, TypeOK
  <1>3. Unborn' /\ AnAdminRemains'
    BY DEF AdminInv, Unborn, AnAdminRemains, EnabledAdmins, Rows
  <1>4. InsertsLater'
    BY <1>1 DEF AdminInv, InsertsLater, At
  <1> QED BY <1>2, <1>3, <1>4 DEF AdminInv

LEMMA AdminCreateFirst ==
  ASSUME AdminInv, NEW n \in Names, CreateFirstAdmin(n)
  PROVE  AdminInv'
  <1> DEFINE row == Row(n, "admin", NoEmail, 0)
  <1>1. row \in Account
    BY NewRowIsAccount DEF Roles
  <1>2. TypeOK /\ Unborn /\ Insert(row)
    BY DEF AdminInv, CreateFirstAdmin
  <1>3. /\ users' \in [Ids -> Account \cup {NoUser}] /\ nextId' \in 1 .. MaxUsers + 1
        /\ nextId \in Ids /\ nextId' = nextId + 1 /\ Rows' = Rows \cup {nextId}
        /\ users'[nextId] = row /\ Unborn'
    BY <1>1, <1>2, InsertRow
  <1>4. TypeOK'
    BY <1>3 DEF AdminInv, TypeOK, CreateFirstAdmin
  <1>5. nextId \in EnabledAdmins'
    BY <1>3 DEF EnabledAdmins, Row
  <1>6. AnAdminRemains'
    BY <1>5 DEF AnAdminRemains
  <1>7. InsertsLater'
    BY <1>3 DEF AdminInv, InsertsLater, At, CreateFirstAdmin, Ids
  <1> QED BY <1>3, <1>4, <1>6, <1>7 DEF AdminInv

LEMMA AdminCreateInsert ==
  ASSUME AdminInv, NEW r \in Requests, CreateInsert(r)
  PROVE  AdminInv'
  <1> DEFINE q == req[r]
  <1>1. q \in Req /\ q.name \in Names /\ nextId > 1 /\ TypeOK /\ Unborn
    BY DEF AdminInv, TypeOK, InsertsLater, CreateInsert, At
  <1>2. /\ req' \in [Requests -> Req] /\ req'[r] = Idle
        /\ \A o \in Requests \ {r} : req'[o] = req[o]
    BY <1>1, ReturnReq DEF CreateInsert
  <1>3. PICK b \in EnabledAdmins : TRUE
    BY <1>1 DEF AdminInv, AnAdminRemains
  <1>4. ASSUME NEW t \in Tokens \cup {0}, Insert(Row(q.name, q.role, q.email, t)),
               nextToken' \in 1 .. MaxTokens + 1, UNCHANGED spent
        PROVE  AdminInv'
    <2>1. Row(q.name, q.role, q.email, t) \in Account
      BY <1>1, NewRowIsAccount DEF Req
    <2>2. /\ users' \in [Ids -> Account \cup {NoUser}] /\ nextId' \in 1 .. MaxUsers + 1
          /\ nextId \in Ids /\ nextId' = nextId + 1 /\ nextId \notin Rows
          /\ Rows' = Rows \cup {nextId}
          /\ \A o \in Ids \ {nextId} : users'[o] = users[o]
          /\ Unborn'
      BY <1>1, <1>4, <2>1, InsertRow
    <2>3. TypeOK'
      BY <1>2, <1>4, <2>2 DEF AdminInv, TypeOK
    <2>4. AnAdminRemains'
      BY <1>3, <2>2, AdminStays DEF AnAdminRemains, EnabledAdmins, Rows
    <2>5. InsertsLater'
      BY <1>2, <2>2 DEF AdminInv, InsertsLater, At, Idle, Ids
    <2> QED BY <2>2, <2>3, <2>4, <2>5 DEF AdminInv
  <1>5. CASE UNCHANGED <<users, nextId, nextToken>>
    <2>1. UNCHANGED spent /\ Idle \in Req /\ Idle.pc = "idle"
      BY DEF CreateInsert, Idle, Req, Pc, Roles
    <2> QED BY <1>5, <2>1, AdminRead DEF CreateInsert, Return
  <1>6. CASE Insert(Row(q.name, q.role, q.email, 0)) /\ UNCHANGED nextToken
    BY <1>1, <1>4, <1>6 DEF CreateInsert, TypeOK
  <1>7. CASE /\ nextToken \in Tokens /\ nextToken' = nextToken + 1
             /\ Insert(Row(q.name, q.role, q.email, nextToken))
    <2>1. nextToken' \in 1 .. MaxTokens + 1
      BY <1>7, AccountsAssumption DEF Tokens
    <2> QED BY <1>4, <1>7, <2>1 DEF CreateInsert
  <1> QED BY <1>5, <1>6, <1>7 DEF CreateInsert

(* Writing one row and keeping an administrator keeps the invariant.       *)
LEMMA AdminEdit ==
  ASSUME AdminInv, NEW b \in Rows, NEW row \in Account,
         users' = [users EXCEPT ![b] = row],
         \/ (row.role = "admin" /\ row.enabled)
         \/ b \notin EnabledAdmins
         \/ \E o \in EnabledAdmins : o # b,
         UNCHANGED <<nextId, nextToken>>, spent' \subseteq Tokens,
         req' \in [Requests -> Req],
         \A r \in Requests : req'[r].pc = "insert" => req'[r] = req[r]
  PROVE  AdminInv'
  <1>1. /\ users' \in [Ids -> Account \cup {NoUser}] /\ Rows' = Rows /\ users'[b] = row
        /\ \A o \in Ids \ {b} : users'[o] = users[o]
    BY EditRow DEF AdminInv
  <1>2. TypeOK'
    BY <1>1 DEF AdminInv, TypeOK
  <1>3. Unborn'
    BY <1>1 DEF AdminInv, Unborn, Rows
  <1>4. InsertsLater'
    BY DEF AdminInv, InsertsLater, At
  <1>5. AnAdminRemains'
    <2> SUFFICES ASSUME nextId > 1 PROVE EnabledAdmins' # {}
      BY DEF AnAdminRemains
    <2>1. EnabledAdmins # {}
      BY DEF AdminInv, AnAdminRemains
    <2>2. CASE row.role = "admin" /\ row.enabled
      BY <1>1, <2>2 DEF EnabledAdmins
    <2>3. CASE \E o \in EnabledAdmins : o # b
      BY <1>1, <2>3, AdminStays DEF EnabledAdmins, Rows
    <2>4. CASE b \notin EnabledAdmins
      BY <1>1, <2>1, <2>4, AdminStays DEF EnabledAdmins, Rows
    <2> QED BY <2>2, <2>3, <2>4
  <1> QED BY <1>2, <1>3, <1>4, <1>5 DEF AdminInv

LEMMA AdminSetRole ==
  ASSUME AdminInv, NEW b \in Ids, NEW role \in Roles, SetRole(b, role)
  PROVE  AdminInv'
  <1> DEFINE row == [users[b] EXCEPT !.role = role]
  <1>1. b \in Rows /\ TypeOK /\ users[b] \in Account
    BY RowsAreAccounts DEF AdminInv, SetRole
  <1>2. row \in Account /\ users' = [users EXCEPT ![b] = row]
    BY <1>1, RoleEdit DEF SetRole
  <1>3. (row.role = "admin" /\ row.enabled) \/ b \notin EnabledAdmins
          \/ \E o \in EnabledAdmins : o # b
    <2>1. CASE role = "admin"
      BY <1>1, <2>1 DEF Account, EnabledAdmins
    <2>2. CASE role # "admin"
      BY <1>1, <2>2, AnotherAdmin DEF SetRole
    <2> QED BY <2>1, <2>2
  <1> QED BY <1>1, <1>2, <1>3, AdminEdit DEF SetRole, TypeOK

LEMMA AdminSetEnabled ==
  ASSUME AdminInv, NEW b \in Ids, NEW e \in BOOLEAN, SetEnabled(b, e)
  PROVE  AdminInv'
  <1> DEFINE row == [users[b] EXCEPT !.enabled = e]
  <1>1. b \in Rows /\ TypeOK /\ users[b] \in Account
    BY RowsAreAccounts DEF AdminInv, SetEnabled
  <1>2. row \in Account /\ users' = [users EXCEPT ![b] = row]
    BY <1>1, EnabledEdit DEF SetEnabled
  <1>3. (row.role = "admin" /\ row.enabled) \/ b \notin EnabledAdmins
          \/ \E o \in EnabledAdmins : o # b
    <2>1. CASE e
      BY <1>1, <2>1 DEF Account, EnabledAdmins
    <2>2. CASE ~ e
      BY <1>1, <2>2, AnotherAdmin DEF SetEnabled
    <2> QED BY <2>1, <2>2
  <1> QED BY <1>1, <1>2, <1>3, AdminEdit DEF SetEnabled, TypeOK

LEMMA AdminDelete ==
  ASSUME AdminInv, NEW b \in Ids, Delete(b)
  PROVE  AdminInv'
  <1>1. b \in Rows /\ TypeOK /\ UNCHANGED <<nextId, nextToken, spent, req>>
    BY DEF AdminInv, Delete
  <1>2. /\ users' \in [Ids -> Account \cup {NoUser}] /\ Rows' = Rows \ {b}
        /\ \A o \in Ids \ {b} : users'[o] = users[o]
    BY <1>1, DeleteRow DEF Delete
  <1>3. TypeOK'
    BY <1>1, <1>2 DEF TypeOK
  <1>4. Unborn' /\ InsertsLater'
    BY <1>1, <1>2 DEF AdminInv, Unborn, InsertsLater, At, Delete
  <1>5. AnAdminRemains'
    <2> SUFFICES ASSUME nextId > 1 PROVE EnabledAdmins' # {}
      BY <1>1 DEF AnAdminRemains
    <2>1. EnabledAdmins # {}
      BY DEF AdminInv, AnAdminRemains
    <2>2. PICK o \in EnabledAdmins : o # b
      BY <1>1, <2>1, AnotherAdmin DEF Delete
    <2> QED BY <1>2, <2>2, AdminStays DEF EnabledAdmins, Rows
  <1> QED BY <1>3, <1>4, <1>5 DEF AdminInv

(* An edit that touches neither the role nor the state of the account.     *)
LEMMA SameStanding ==
  ASSUME NEW b \in Rows, NEW row, row.role = users[b].role, row.enabled = users[b].enabled
  PROVE  (row.role = "admin" /\ row.enabled) \/ b \notin EnabledAdmins
           \/ \E o \in EnabledAdmins : o # b
  BY DEF EnabledAdmins

LEMMA AdminSetEmail ==
  ASSUME AdminInv, NEW r \in Requests, SetEmail(r)
  PROVE  AdminInv'
  <1> DEFINE b == req[r].id
  <1>1. TypeOK /\ req[r] \in Req /\ Idle \in Req /\ Idle.pc = "idle"
    BY DEF AdminInv, TypeOK, Idle, Req, Pc, Roles
  <1>2. CASE b \notin Rows
    BY <1>1, <1>2, AdminRead DEF SetEmail, Return
  <1>3. CASE b \in Rows
    <2> DEFINE row == [users[b] EXCEPT !.email = req[r].email]
    <2>1. users[b] \in Account
      BY <1>1, <1>3, RowsAreAccounts
    <2>2. users' = [users EXCEPT ![b].email = req[r].email] /\ req[r].email \in Emails \cup {NoEmail}
      BY <1>1, <1>3 DEF SetEmail, Req
    <2>3. row \in Account /\ users' = [users EXCEPT ![b] = row]
      BY <1>1, <1>3, <2>2, EmailEdit
    <2>4. /\ req' \in [Requests -> Req]
          /\ \A o \in Requests : req'[o].pc = "insert" => req'[o] = req[o]
      BY <1>1, ReturnReq DEF SetEmail
    <2>5. row.role = users[b].role /\ row.enabled = users[b].enabled
      BY <2>1 DEF Account
    <2> QED BY <1>1, <1>3, <2>3, <2>4, <2>5, SameStanding, AdminEdit DEF SetEmail, TypeOK
  <1> QED BY <1>2, <1>3

LEMMA AdminConsume ==
  ASSUME AdminInv, NEW t \in Tokens, AcceptInvite(t) \/ CompletePasswordReset(t)
  PROVE  AdminInv'
  <1>1. TypeOK /\ UNCHANGED <<nextId, nextToken, req>> /\ spent' \subseteq Tokens
    BY DEF AdminInv, TypeOK, AcceptInvite, CompletePasswordReset
  <1>2. ASSUME NEW b \in Rows, NEW row \in Account, users' = [users EXCEPT ![b] = row],
               row.role = users[b].role, row.enabled = users[b].enabled
        PROVE  AdminInv'
    BY <1>1, <1>2, SameStanding, AdminEdit DEF TypeOK
  <1>3. CASE AcceptInvite(t)
    <2>1. PICK b \in Rows : users' = [users EXCEPT ![b].invite = 0, ![b].joined = TRUE]
      BY <1>3 DEF AcceptInvite, Verified
    <2>2. users[b] \in Account
      BY <1>1, RowsAreAccounts
    <2> DEFINE row == [users[b] EXCEPT !.invite = 0, !.joined = TRUE]
    <2>3. row \in Account /\ users' = [users EXCEPT ![b] = row]
      BY <1>1, <2>1, InviteEdit
    <2>4. row.role = users[b].role /\ row.enabled = users[b].enabled
      BY <2>2 DEF Account
    <2> QED BY <1>2, <2>3, <2>4
  <1>4. CASE CompletePasswordReset(t)
    <2>1. PICK b \in Rows : users' = [users EXCEPT ![b].reset = 0]
      BY <1>4 DEF CompletePasswordReset, Verified
    <2>2. users[b] \in Account
      BY <1>1, RowsAreAccounts
    <2> DEFINE row == [users[b] EXCEPT !.reset = 0]
    <2>3. row \in Account /\ users' = [users EXCEPT ![b] = row]
      BY <1>1, <2>1, ResetEdit
    <2>4. row.role = users[b].role /\ row.enabled = users[b].enabled
      BY <2>2 DEF Account
    <2> QED BY <1>2, <2>3, <2>4
  <1> QED BY <1>3, <1>4

LEMMA AdminIssue ==
  ASSUME AdminInv, NEW r \in Requests, NEW S \in SUBSET Rows,
         NEW kind \in {"invite", "reset"}, IssueToken(r, kind, S)
  PROVE  AdminInv'
  <1>1. TypeOK /\ Return(r) /\ UNCHANGED <<nextId, spent>>
    BY DEF AdminInv, IssueToken
  <1>2. /\ users' \in [Ids -> Account \cup {NoUser}] /\ Rows' = Rows
        /\ nextToken \in Tokens /\ nextToken' = nextToken + 1
        /\ \A b \in Ids \ S : users'[b] = users[b]
        /\ \A b \in S : users'[b] = IF kind = "invite"
                                    THEN [users[b] EXCEPT !.invite = nextToken]
                                    ELSE [users[b] EXCEPT !.reset = nextToken]
    BY <1>1, IssueEdit
  <1>3. req' \in [Requests -> Req] /\ req'[r] = Idle
        /\ \A o \in Requests \ {r} : req'[o] = req[o]
    BY <1>1, ReturnReq
  <1>4. nextToken' \in 1 .. MaxTokens + 1
    BY <1>2, AccountsAssumption DEF Tokens
  <1>5. TypeOK'
    BY <1>1, <1>2, <1>3, <1>4 DEF TypeOK
  <1>6. Unborn'
    BY <1>1, <1>2 DEF AdminInv, Unborn, Rows
  <1>7. InsertsLater'
    BY <1>1, <1>3 DEF AdminInv, InsertsLater, At, Idle
  <1>8. \A b \in Rows : users'[b].role = users[b].role /\ users'[b].enabled = users[b].enabled
    <2> TAKE b \in Rows
    <2>1. b \in Ids /\ users[b] \in Account
      BY <1>1, RowsAreAccounts
    <2>2. CASE b \notin S
      BY <1>2, <2>1, <2>2
    <2>3. CASE b \in S
      BY <1>2, <2>1, <2>3 DEF Account
    <2> QED BY <2>2, <2>3
  <1>9. AnAdminRemains'
    BY <1>1, <1>2, <1>8 DEF AdminInv, AnAdminRemains, EnabledAdmins
  <1> QED BY <1>5, <1>6, <1>7, <1>9 DEF AdminInv

LEMMA AdminReads ==
  ASSUME AdminInv, NEW r \in Requests,
         \/ \E n \in Names, role \in Roles, e \in Emails \cup {NoEmail}, i \in BOOLEAN :
              CreateCheck(r, n, role, e, i)
         \/ \E b \in Ids, e \in Emails \cup {NoEmail} : SetEmailCheck(r, b, e)
         \/ \E b \in Ids : ResendLookup(r, b)
         \/ \E e \in Emails : ForgotLookup(r, e)
         \/ ResendPending(r) \/ Abandon(r)
  PROVE  AdminInv'
  <1>1. TypeOK /\ req[r] \in Req /\ Idle \in Req
    BY DEF AdminInv, TypeOK, Idle, Req, Pc, Roles
  <1>2. ASSUME NEW n \in Names, NEW role \in Roles, NEW e \in Emails \cup {NoEmail},
               NEW i \in BOOLEAN, CreateCheck(r, n, role, e, i)
        PROVE  AdminInv'
    <2> DEFINE q == [Idle EXCEPT !.pc = "insert", !.name = n, !.role = role,
                                 !.email = e, !.invite = i]
    <2>1. q \in Req /\ q.name = n
      BY DEF Idle, Req, Pc
    <2>2. PICK b \in Rows : TRUE
      BY <1>2 DEF CreateCheck, SignedIn
    <2>3. nextId > 1
      BY <2>2 DEF AdminInv, Unborn, Rows, Ids, TypeOK
    <2> QED BY <1>2, <2>1, <2>3, AdminRead DEF CreateCheck
  <1>3. ASSUME NEW q \in Req, q.pc # "insert", Read(r, q),
               UNCHANGED <<users, nextId, nextToken, spent>>
        PROVE  AdminInv'
    BY <1>3, AdminRead
  <1>4. ASSUME NEW b \in Ids, NEW e \in Emails \cup {NoEmail}, SetEmailCheck(r, b, e)
        PROVE  AdminInv'
    <2> DEFINE q == [Idle EXCEPT !.pc = "setEmail", !.id = b, !.email = e]
    <2>1. q \in Req /\ q.pc = "setEmail"
      BY DEF Idle, Req, Pc, Roles
    <2> QED BY <1>3, <1>4, <2>1 DEF SetEmailCheck
  <1>5. ASSUME NEW b \in Ids, ResendLookup(r, b)
        PROVE  AdminInv'
    <2> DEFINE q == [Idle EXCEPT !.pc = "resend", !.id = b]
    <2>1. q \in Req /\ q.pc = "resend"
      BY DEF Idle, Req, Pc, Roles
    <2> QED BY <1>3, <1>5, <2>1 DEF ResendLookup
  <1>6. ASSUME NEW e \in Emails, ForgotLookup(r, e)
        PROVE  AdminInv'
    <2>1. PICK b \in Rows : Read(r, [Idle EXCEPT !.pc = "issueReset", !.name = users[b].name])
      BY <1>6 DEF ForgotLookup
    <2> DEFINE q == [Idle EXCEPT !.pc = "issueReset", !.name = users[b].name]
    <2>2. users[b].name \in Names
      BY <1>1, RowsAreAccounts DEF Account
    <2>3. q \in Req /\ q.pc = "issueReset"
      BY <2>2 DEF Idle, Req, Pc, Roles
    <2> QED BY <1>3, <1>6, <2>1, <2>3 DEF ForgotLookup
  <1>7. CASE ResendPending(r)
    <2> DEFINE q == [req[r] EXCEPT !.pc = "issueInvite"]
    <2>1. q \in Req /\ q.pc = "issueInvite" /\ Idle.pc = "idle"
      BY <1>1 DEF Req, Pc, Idle
    <2> QED BY <1>1, <1>3, <1>7, <2>1 DEF ResendPending, Return
  <1>8. CASE Abandon(r)
    <2>1. Idle.pc = "idle"
      BY DEF Idle
    <2> QED BY <1>1, <1>3, <1>8, <2>1 DEF Abandon, Return
  <1> QED BY <1>2, <1>4, <1>5, <1>6, <1>7, <1>8

LEMMA AdminNext == AdminInv /\ [Next]_vars => AdminInv'
  <1> SUFFICES ASSUME AdminInv, [Next]_vars PROVE AdminInv'
    OBVIOUS
  <1>1. CASE UNCHANGED vars
    BY <1>1 DEF vars, AdminInv, TypeOK, Unborn, InsertsLater, At, AnAdminRemains,
                EnabledAdmins, Rows
  <1>2. ASSUME NEW n \in Names, CreateFirstAdmin(n) PROVE AdminInv'
    BY <1>2, AdminCreateFirst
  <1>3. ASSUME NEW r \in Requests,
               CreateInsert(r) \/ SetEmail(r) \/ ResendIssue(r) \/ ForgotIssue(r)
        PROVE  AdminInv'
    <2>1. CASE ResendIssue(r)
      BY <2>1, AdminIssue DEF ResendIssue
    <2>2. CASE ForgotIssue(r)
      BY <2>2, AdminIssue DEF ForgotIssue
    <2> QED BY <1>3, <2>1, <2>2, AdminCreateInsert, AdminSetEmail
  <1>4. ASSUME NEW b \in Ids,
               \/ \E role \in Roles : SetRole(b, role)
               \/ \E e \in BOOLEAN : SetEnabled(b, e)
               \/ Delete(b)
        PROVE  AdminInv'
    BY <1>4, AdminSetRole, AdminSetEnabled, AdminDelete
  <1>5. ASSUME NEW t \in Tokens, AcceptInvite(t) \/ CompletePasswordReset(t) PROVE AdminInv'
    BY <1>5, AdminConsume
  <1> QED BY <1>1, <1>2, <1>3, <1>4, <1>5, AdminReads DEF Next

(* The types hold in every state of every instance.                        *)
THEOREM TypeCorrect == Spec => []TypeOK
  <1>1. Spec => []AdminInv
    BY AdminInit, AdminNext, PTL DEF Spec
  <1>2. AdminInv => TypeOK
    BY DEF AdminInv
  <1> QED BY <1>1, <1>2, PTL

(* Once an account exists some enabled administrator exists, for any       *)
(* number of accounts and of racing requests.                              *)
THEOREM AdministratorRemains == Spec => []AnAdminRemains
  <1>1. Spec => []AdminInv
    BY AdminInit, AdminNext, PTL DEF Spec
  <1>2. AdminInv => AnAdminRemains
    BY DEF AdminInv
  <1> QED BY <1>1, <1>2, PTL

-----------------------------------------------------------------------------
(* The links.  No token stands in two columns, and every token is older    *)
(* than the next one: what is issued is new, what is consumed is gone.     *)

UniqueNames == \A a, b \in Rows : users[a].name = users[b].name => a = b

Older ==
  /\ \A b \in Rows : users[b].invite < nextToken /\ users[b].reset < nextToken
  /\ \A t \in spent : t < nextToken

DistinctTokens ==
  \A a, b \in Rows :
    /\ users[a].invite # 0 /\ users[a].invite = users[b].invite => a = b
    /\ users[a].reset # 0 /\ users[a].reset = users[b].reset => a = b
    /\ users[a].invite # 0 => users[a].invite # users[b].reset

LinkInv == UniqueNames /\ Older /\ DistinctTokens /\ SpentIsDead

LEMMA LinkInit == Init => LinkInv
  BY DEF Init, LinkInv, UniqueNames, Older, DistinctTokens, SpentIsDead, Rows

(* A step that writes none of the columns the invariant is about, or only  *)
(* deletes rows, keeps it.                                                 *)
LEMMA LinkKept ==
  ASSUME LinkInv, Rows' \subseteq Rows,
         \A b \in Rows' : /\ users'[b].name = users[b].name
                          /\ users'[b].invite = users[b].invite
                          /\ users'[b].reset = users[b].reset,
         UNCHANGED <<nextToken, spent>>
  PROVE  LinkInv'
  <1>1. UniqueNames'
    BY DEF LinkInv, UniqueNames
  <1>2. Older'
    BY DEF LinkInv, Older
  <1>3. DistinctTokens'
    BY DEF LinkInv, DistinctTokens
  <1>4. SpentIsDead'
    BY DEF LinkInv, SpentIsDead
  <1> QED BY <1>1, <1>2, <1>3, <1>4 DEF LinkInv

LEMMA LinkEdit ==
  ASSUME TypeOK, LinkInv, NEW b \in Rows, NEW row \in Account,
         users' = [users EXCEPT ![b] = row],
         row.name = users[b].name, row.invite = users[b].invite, row.reset = users[b].reset,
         UNCHANGED <<nextToken, spent>>
  PROVE  LinkInv'
  <1>1. /\ Rows' = Rows /\ users'[b] = row
        /\ \A o \in Ids \ {b} : users'[o] = users[o]
    BY EditRow
  <1> QED BY <1>1, LinkKept DEF Rows

(* A new row has a new name and, if any, a new token.                      *)
LEMMA LinkInsert ==
  ASSUME TypeOK, Unborn, LinkInv, NEW n \in Names, ~ UsernameTaken(n),
         NEW role \in Roles, NEW e \in Emails \cup {NoEmail}, NEW t \in Tokens \cup {0},
         Insert(Row(n, role, e, t)), UNCHANGED spent,
         \/ (t = 0 /\ UNCHANGED nextToken)
         \/ (t = nextToken /\ t \in Tokens /\ nextToken' = nextToken + 1)
  PROVE  LinkInv'
  <1> DEFINE row == Row(n, role, e, t)
  <1>1. row \in Account
    BY NewRowIsAccount
  <1>2. /\ nextId \notin Rows /\ Rows' = Rows \cup {nextId} /\ users'[nextId] = row
        /\ \A b \in Rows : users'[b] = users[b]
    BY <1>1, InsertRow DEF Rows
  <1>3. row.name = n /\ row.invite = t /\ row.reset = 0
    BY DEF Row
  <1>4. nextToken \in Nat /\ nextToken >= 1 /\ nextToken' \in {nextToken, nextToken + 1}
    BY DEF TypeOK
  <1>5. \A b \in Rows : users[b].invite \in Nat /\ users[b].reset \in Nat
    BY RowsAreAccounts DEF Account, Tokens
  <1>6. \A u \in spent : u \in Nat /\ u >= 1
    BY DEF TypeOK, Tokens
  <1>7. UniqueNames'
    BY <1>2, <1>3 DEF LinkInv, UniqueNames, UsernameTaken
  <1>8. Older'
    BY <1>2, <1>3, <1>4, <1>5, <1>6 DEF LinkInv, Older
  <1>9. DistinctTokens'
    BY <1>2, <1>3, <1>4, <1>5 DEF LinkInv, DistinctTokens, Older
  <1>10. SpentIsDead'
    BY <1>2, <1>3, <1>4, <1>6 DEF LinkInv, SpentIsDead, Older
  <1> QED BY <1>7, <1>8, <1>9, <1>10 DEF LinkInv

(* A token is issued to at most one row, and is new.                       *)
LEMMA LinkIssue ==
  ASSUME TypeOK, LinkInv, NEW r \in Requests, NEW S \in SUBSET Rows,
         \A a, b \in S : a = b,
         NEW kind \in {"invite", "reset"}, IssueToken(r, kind, S)
  PROVE  LinkInv'
  <1>1. /\ Rows' = Rows /\ nextToken \in Tokens /\ nextToken' = nextToken + 1
        /\ \A b \in Ids \ S : users'[b] = users[b]
        /\ \A b \in S : users'[b] = IF kind = "invite"
                                    THEN [users[b] EXCEPT !.invite = nextToken]
                                    ELSE [users[b] EXCEPT !.reset = nextToken]
    BY IssueEdit
  <1>2. UNCHANGED spent
    BY DEF IssueToken
  <1>3. \A b \in Rows : users[b] \in Account /\ b \in Ids
    BY RowsAreAccounts
  <1>4. \A b \in Rows \ S : users'[b] = users[b]
    BY <1>1, <1>3
  <1>5. \A b \in S : /\ users'[b].name = users[b].name
                     /\ users'[b].invite = IF kind = "invite" THEN nextToken ELSE users[b].invite
                     /\ users'[b].reset = IF kind = "invite" THEN users[b].reset ELSE nextToken
    <2> TAKE b \in S
    <2>1. users[b] \in Account
      BY <1>3
    <2> QED BY <1>1, <2>1 DEF Account
  <1>6. \A b \in Rows : users[b].invite \in Nat /\ users[b].reset \in Nat
    BY <1>3 DEF Account, Tokens
  <1>7. nextToken \in Nat /\ \A u \in spent : u \in Nat
    BY DEF TypeOK, Tokens
  <1>8. UniqueNames'
    BY <1>1, <1>4, <1>5 DEF LinkInv, UniqueNames
  <1>9. Older'
    BY <1>1, <1>4, <1>5, <1>6, <1>7, <1>2 DEF LinkInv, Older
  <1>10. DistinctTokens'
    <2> SUFFICES ASSUME NEW a \in Rows, NEW b \in Rows
                 PROVE  /\ users'[a].invite # 0 /\ users'[a].invite = users'[b].invite => a = b
                        /\ users'[a].reset # 0 /\ users'[a].reset = users'[b].reset => a = b
                        /\ users'[a].invite # 0 => users'[a].invite # users'[b].reset
      BY <1>1 DEF DistinctTokens
    <2>1. /\ users[a].invite # 0 /\ users[a].invite = users[b].invite => a = b
          /\ users[a].reset # 0 /\ users[a].reset = users[b].reset => a = b
          /\ users[a].invite # 0 => users[a].invite # users[b].reset
      BY DEF LinkInv, DistinctTokens
    <2>2. /\ users[a].invite < nextToken /\ users[a].reset < nextToken
          /\ users[b].invite < nextToken /\ users[b].reset < nextToken
      BY DEF LinkInv, Older
    <2>3. CASE a \in S /\ b \in S
      BY <1>5, <1>6, <1>7, <2>1, <2>2, <2>3
    <2>4. CASE a \in S /\ b \notin S
      BY <1>4, <1>5, <1>6, <1>7, <2>1, <2>2, <2>4
    <2>5. CASE a \notin S /\ b \in S
      BY <1>4, <1>5, <1>6, <1>7, <2>1, <2>2, <2>5
    <2>6. CASE a \notin S /\ b \notin S
      BY <1>4, <2>1, <2>6
    <2> QED BY <2>3, <2>4, <2>5, <2>6
  <1>11. SpentIsDead'
    BY <1>1, <1>4, <1>5, <1>7, <1>2 DEF LinkInv, SpentIsDead, Older
  <1> QED BY <1>8, <1>9, <1>10, <1>11 DEF LinkInv

(* The token that is consumed stood in one column only, which is cleared.  *)
LEMMA LinkConsume ==
  ASSUME TypeOK, LinkInv, NEW t \in Tokens, NEW b \in Rows, NEW row \in Account,
         users' = [users EXCEPT ![b] = row], row.name = users[b].name,
         \/ (users[b].invite = t /\ row.invite = 0 /\ row.reset = users[b].reset)
         \/ (users[b].reset = t /\ row.reset = 0 /\ row.invite = users[b].invite),
         spent' = spent \cup {t}, UNCHANGED nextToken
  PROVE  LinkInv'
  <1>1. /\ Rows' = Rows /\ users'[b] = row
        /\ \A o \in Rows \ {b} : users'[o] = users[o]
    BY EditRow DEF Rows
  <1>2. t # 0 /\ t < nextToken /\ nextToken \in Nat /\ nextToken >= 1
    BY DEF LinkInv, Older, Tokens, TypeOK
  <1>3. UniqueNames'
    BY <1>1 DEF LinkInv, UniqueNames
  <1>4. Older'
    BY <1>1, <1>2 DEF LinkInv, Older
  <1>5. DistinctTokens'
    <2> SUFFICES ASSUME NEW x \in Rows, NEW y \in Rows
                 PROVE  /\ users'[x].invite # 0 /\ users'[x].invite = users'[y].invite => x = y
                        /\ users'[x].reset # 0 /\ users'[x].reset = users'[y].reset => x = y
                        /\ users'[x].invite # 0 => users'[x].invite # users'[y].reset
      BY <1>1 DEF DistinctTokens
    <2>1. /\ users[x].invite # 0 /\ users[x].invite = users[y].invite => x = y
          /\ users[x].reset # 0 /\ users[x].reset = users[y].reset => x = y
          /\ users[x].invite # 0 => users[x].invite # users[y].reset
      BY DEF LinkInv, DistinctTokens
    <2>2. CASE x = b
      BY <1>1, <2>1, <2>2
    <2>3. CASE x # b
      BY <1>1, <2>1, <2>3
    <2> QED BY <2>2, <2>3
  <1>6. SpentIsDead'
    <2>1. 0 \notin spent
      BY DEF TypeOK, Tokens
    <2>2. \A o \in Rows \ {b} : users[o].invite # t /\ users[o].reset # t
      BY <1>2 DEF LinkInv, DistinctTokens
    <2>3. row.invite # t /\ row.reset # t
      BY <1>2 DEF LinkInv, DistinctTokens
    <2> QED BY <1>1, <2>1, <2>2, <2>3 DEF LinkInv, SpentIsDead
  <1> QED BY <1>3, <1>4, <1>5, <1>6 DEF LinkInv

LEMMA LinkNext == AdminInv /\ LinkInv /\ [Next]_vars => LinkInv'
  <1> SUFFICES ASSUME AdminInv, LinkInv, [Next]_vars PROVE LinkInv'
    OBVIOUS
  <1> USE DEF AdminInv
  <1>1. ASSUME UNCHANGED <<users, nextToken, spent>> PROVE LinkInv'
    BY <1>1, LinkKept DEF Rows
  <1>2. ASSUME NEW n \in Names, CreateFirstAdmin(n) PROVE LinkInv'
    BY <1>2, LinkInsert DEF CreateFirstAdmin, UsernameTaken, Roles
  <1>3. ASSUME NEW r \in Requests, CreateInsert(r) PROVE LinkInv'
    <2> DEFINE q == req[r]
    <2>1. q.name \in Names /\ q.role \in Roles /\ q.email \in Emails \cup {NoEmail}
      BY <1>3 DEF InsertsLater, TypeOK, Req, CreateInsert
    <2>2. CASE UNCHANGED <<users, nextToken>>
      BY <1>1, <1>3, <2>2 DEF CreateInsert
    <2>3. CASE ~ UsernameTaken(q.name) /\ Insert(Row(q.name, q.role, q.email, 0))
               /\ UNCHANGED nextToken
      BY <1>3, <2>1, <2>3, LinkInsert DEF CreateInsert
    <2>4. CASE /\ ~ UsernameTaken(q.name) /\ Insert(Row(q.name, q.role, q.email, nextToken))
               /\ nextToken \in Tokens /\ nextToken' = nextToken + 1
      BY <1>3, <2>1, <2>4, LinkInsert DEF CreateInsert
    <2> QED BY <1>3, <2>2, <2>3, <2>4 DEF CreateInsert
  <1>4. ASSUME NEW r \in Requests, SetEmail(r) PROVE LinkInv'
    <2> DEFINE b == req[r].id
    <2>1. CASE b \notin Rows
      BY <1>1, <1>4, <2>1 DEF SetEmail
    <2>2. CASE b \in Rows
      <3> DEFINE row == [users[b] EXCEPT !.email = req[r].email]
      <3>1. users[b] \in Account /\ req[r].email \in Emails \cup {NoEmail}
        BY <2>2, RowsAreAccounts DEF TypeOK, Req
      <3>2. row \in Account /\ users' = [users EXCEPT ![b] = row]
        BY <1>4, <2>2, <3>1, EmailEdit DEF SetEmail
      <3>3. row.name = users[b].name /\ row.invite = users[b].invite
            /\ row.reset = users[b].reset
        BY <3>1 DEF Account
      <3> QED BY <1>4, <2>2, <3>2, <3>3, LinkEdit DEF SetEmail
    <2> QED BY <2>1, <2>2
  <1>5. ASSUME NEW r \in Requests, ResendIssue(r) PROVE LinkInv'
    BY <1>5, LinkIssue DEF ResendIssue
  <1>6. ASSUME NEW r \in Requests, ForgotIssue(r) PROVE LinkInv'
    <2> DEFINE S == {b \in Rows : users[b].name = req[r].name}
    <2>1. \A a, b \in S : a = b
      BY DEF LinkInv, UniqueNames
    <2> QED BY <1>6, <2>1, LinkIssue DEF ForgotIssue
  <1>7. ASSUME NEW b \in Ids, NEW role \in Roles, SetRole(b, role) PROVE LinkInv'
    <2> DEFINE row == [users[b] EXCEPT !.role = role]
    <2>1. b \in Rows /\ users[b] \in Account
      BY <1>7, RowsAreAccounts DEF SetRole
    <2>2. row \in Account /\ users' = [users EXCEPT ![b] = row]
      BY <1>7, <2>1, RoleEdit DEF SetRole
    <2>3. row.name = users[b].name /\ row.invite = users[b].invite /\ row.reset = users[b].reset
      BY <2>1 DEF Account
    <2> QED BY <1>7, <2>1, <2>2, <2>3, LinkEdit DEF SetRole
  <1>8. ASSUME NEW b \in Ids, NEW e \in BOOLEAN, SetEnabled(b, e) PROVE LinkInv'
    <2> DEFINE row == [users[b] EXCEPT !.enabled = e]
    <2>1. b \in Rows /\ users[b] \in Account
      BY <1>8, RowsAreAccounts DEF SetEnabled
    <2>2. row \in Account /\ users' = [users EXCEPT ![b] = row]
      BY <1>8, <2>1, EnabledEdit DEF SetEnabled
    <2>3. row.name = users[b].name /\ row.invite = users[b].invite /\ row.reset = users[b].reset
      BY <2>1 DEF Account
    <2> QED BY <1>8, <2>1, <2>2, <2>3, LinkEdit DEF SetEnabled
  <1>9. ASSUME NEW b \in Ids, Delete(b) PROVE LinkInv'
    <2>1. b \in Rows
      BY <1>9 DEF Delete
    <2>2. Rows' = Rows \ {b} /\ \A o \in Ids \ {b} : users'[o] = users[o]
      BY <1>9, <2>1, DeleteRow DEF Delete
    <2> QED BY <1>9, <2>2, LinkKept DEF Delete, Rows
  <1>10. ASSUME NEW t \in Tokens, AcceptInvite(t) PROVE LinkInv'
    <2>1. PICK b \in Rows : /\ users' = [users EXCEPT ![b].invite = 0, ![b].joined = TRUE]
                            /\ users[b].invite = t
      BY <1>10 DEF AcceptInvite, Verified
    <2> DEFINE row == [users[b] EXCEPT !.invite = 0, !.joined = TRUE]
    <2>2. row \in Account /\ users' = [users EXCEPT ![b] = row] /\ users[b] \in Account
      BY <2>1, InviteEdit, RowsAreAccounts
    <2>3. row.name = users[b].name /\ row.invite = 0 /\ row.reset = users[b].reset
      BY <2>2 DEF Account
    <2> QED BY <1>10, <2>1, <2>2, <2>3, LinkConsume DEF AcceptInvite
  <1>11. ASSUME NEW t \in Tokens, CompletePasswordReset(t) PROVE LinkInv'
    <2>1. PICK b \in Rows : users' = [users EXCEPT ![b].reset = 0] /\ users[b].reset = t
      BY <1>11 DEF CompletePasswordReset, Verified
    <2> DEFINE row == [users[b] EXCEPT !.reset = 0]
    <2>2. row \in Account /\ users' = [users EXCEPT ![b] = row] /\ users[b] \in Account
      BY <2>1, ResetEdit, RowsAreAccounts
    <2>3. row.name = users[b].name /\ row.reset = 0 /\ row.invite = users[b].invite
      BY <2>2 DEF Account
    <2> QED BY <1>11, <2>1, <2>2, <2>3, LinkConsume DEF CompletePasswordReset
  <1>12. CASE UNCHANGED vars
    BY <1>1, <1>12 DEF vars
  <1>13. ASSUME NEW r \in Requests,
                \/ \E n \in Names, role \in Roles, e \in Emails \cup {NoEmail}, i \in BOOLEAN :
                     CreateCheck(r, n, role, e, i)
                \/ \E b \in Ids, e \in Emails \cup {NoEmail} : SetEmailCheck(r, b, e)
                \/ \E b \in Ids : ResendLookup(r, b)
                \/ \E e \in Emails : ForgotLookup(r, e)
                \/ ResendPending(r) \/ Abandon(r)
         PROVE  LinkInv'
    BY <1>1, <1>13 DEF CreateCheck, SetEmailCheck, ResendLookup, ForgotLookup,
                       ResendPending, Abandon
  <1> QED BY <1>2, <1>3, <1>4, <1>5, <1>6, <1>7, <1>8, <1>9, <1>10, <1>11, <1>12, <1>13 DEF Next

(* A link works once: the token of an accepted link stands nowhere, for    *)
(* any number of links, accounts and racing requests.                      *)
THEOREM LinksWorkOnce == Spec => []SpentIsDead
  <1>1. Init => AdminInv /\ LinkInv
    BY AdminInit, LinkInit
  <1>2. AdminInv /\ LinkInv /\ [Next]_vars => (AdminInv /\ LinkInv)'
    BY AdminNext, LinkNext
  <1>3. AdminInv /\ LinkInv => SpentIsDead
    BY DEF LinkInv
  <1> QED BY <1>1, <1>2, <1>3, PTL DEF Spec

-----------------------------------------------------------------------------
(* Disabled accounts.                                                      *)

(* The links of a row that stays disabled stay.                            *)
KeepsLinks ==
  \A b \in Rows :
    ~ users[b].enabled /\ b \in Rows' =>
      /\ users[b].invite # 0 => users'[b].invite # 0
      /\ users[b].reset # 0 => users'[b].reset # 0

(* An edit of one row spares the links unless the row is enabled.          *)
LEMMA BlockedEdit ==
  ASSUME TypeOK, NEW b \in Rows, NEW row \in Account, users' = [users EXCEPT ![b] = row],
         users[b].enabled \/ (row.invite = users[b].invite /\ row.reset = users[b].reset)
  PROVE  KeepsLinks
  BY EditRow, Zenon DEF KeepsLinks, Rows

LEMMA BlockedInsert ==
  ASSUME TypeOK, Unborn, NEW row \in Account, Insert(row)
  PROVE  KeepsLinks
  <1>1. \A b \in Rows : b \in Ids /\ b # nextId
    BY InsertRow DEF Rows
  <1>2. \A b \in Rows : users'[b] = users[b]
    BY <1>1, InsertRow
  <1> QED BY <1>2 DEF KeepsLinks

LEMMA BlockedIssue ==
  ASSUME TypeOK, NEW r, NEW S \in SUBSET Rows, NEW kind \in {"invite", "reset"},
         IssueToken(r, kind, S)
  PROVE  KeepsLinks
  <1> SUFFICES ASSUME NEW b \in Rows
               PROVE  /\ users[b].invite # 0 => users'[b].invite # 0
                      /\ users[b].reset # 0 => users'[b].reset # 0
    BY DEF KeepsLinks
  <1>1. nextToken # 0 /\ users[b] \in Account /\ b \in Ids
    BY AccountsAssumption, RowsAreAccounts DEF IssueToken, Tokens
  <1>2. users'[b] \in {users[b], [users[b] EXCEPT !.invite = nextToken],
                       [users[b] EXCEPT !.reset = nextToken]}
    BY <1>1 DEF IssueToken
  <1> QED BY <1>1, <1>2 DEF Account

LEMMA BlockedNext == AdminInv /\ [Next]_vars => KeepsLinks \/ UNCHANGED vars
  <1> SUFFICES ASSUME AdminInv, [Next]_vars PROVE KeepsLinks \/ UNCHANGED vars
    OBVIOUS
  <1> USE DEF AdminInv
  <1>1. ASSUME UNCHANGED users PROVE KeepsLinks
    BY <1>1 DEF KeepsLinks
  <1>2. ASSUME NEW n \in Names, CreateFirstAdmin(n) PROVE KeepsLinks
    BY <1>2 DEF CreateFirstAdmin, KeepsLinks
  <1>3. ASSUME NEW r \in Requests, CreateInsert(r) PROVE KeepsLinks
    <2> DEFINE q == req[r]
    <2>1. q.name \in Names /\ q.role \in Roles /\ q.email \in Emails \cup {NoEmail}
      BY <1>3 DEF InsertsLater, TypeOK, Req, CreateInsert
    <2>2. CASE UNCHANGED users
      BY <1>1, <2>2
    <2>3. ASSUME NEW t \in Tokens \cup {0}, Insert(Row(q.name, q.role, q.email, t)) PROVE KeepsLinks
      BY <2>1, <2>3, BlockedInsert, NewRowIsAccount
    <2> QED BY <1>1, <1>3, <2>3 DEF CreateInsert
  <1>4. ASSUME NEW r \in Requests, SetEmail(r) PROVE KeepsLinks
    <2> DEFINE b == req[r].id
    <2>1. CASE b \notin Rows
      BY <1>1, <1>4, <2>1 DEF SetEmail
    <2>2. CASE b \in Rows
      <3> DEFINE row == [users[b] EXCEPT !.email = req[r].email]
      <3>1. users[b] \in Account /\ req[r].email \in Emails \cup {NoEmail}
        BY <2>2, RowsAreAccounts DEF TypeOK, Req
      <3>2. row \in Account /\ users' = [users EXCEPT ![b] = row]
        BY <1>4, <2>2, <3>1, EmailEdit DEF SetEmail
      <3>3. row.invite = users[b].invite /\ row.reset = users[b].reset
        BY <3>1 DEF Account
      <3> QED BY <2>2, <3>2, <3>3, BlockedEdit
    <2> QED BY <2>1, <2>2
  <1>5. ASSUME NEW r \in Requests, ResendIssue(r) PROVE KeepsLinks
    BY <1>5, BlockedIssue DEF ResendIssue
  <1>6. ASSUME NEW r \in Requests, ForgotIssue(r) PROVE KeepsLinks
    BY <1>6, BlockedIssue DEF ForgotIssue
  <1>7. ASSUME NEW b \in Ids, NEW role \in Roles, SetRole(b, role) PROVE KeepsLinks
    <2> DEFINE row == [users[b] EXCEPT !.role = role]
    <2>1. b \in Rows /\ users[b] \in Account
      BY <1>7, RowsAreAccounts DEF SetRole
    <2>2. row \in Account /\ users' = [users EXCEPT ![b] = row]
      BY <1>7, <2>1, RoleEdit DEF SetRole
    <2>3. row.invite = users[b].invite /\ row.reset = users[b].reset
      BY <2>1 DEF Account
    <2> QED BY <2>1, <2>2, <2>3, BlockedEdit
  <1>8. ASSUME NEW b \in Ids, NEW e \in BOOLEAN, SetEnabled(b, e) PROVE KeepsLinks
    <2> DEFINE row == [users[b] EXCEPT !.enabled = e]
    <2>1. b \in Rows /\ users[b] \in Account
      BY <1>8, RowsAreAccounts DEF SetEnabled
    <2>2. row \in Account /\ users' = [users EXCEPT ![b] = row]
      BY <1>8, <2>1, EnabledEdit DEF SetEnabled
    <2>3. row.invite = users[b].invite /\ row.reset = users[b].reset
      BY <2>1 DEF Account
    <2> QED BY <2>1, <2>2, <2>3, BlockedEdit
  <1>9. ASSUME NEW b \in Ids, Delete(b) PROVE KeepsLinks
    <2>1. b \in Rows
      BY <1>9 DEF Delete
    <2>2. Rows' = Rows \ {b} /\ \A o \in Ids \ {b} : users'[o] = users[o]
      BY <1>9, <2>1, DeleteRow DEF Delete
    <2> QED BY <2>2 DEF KeepsLinks, Rows
  <1>10. ASSUME NEW t \in Tokens, AcceptInvite(t) PROVE KeepsLinks
    <2>1. PICK b \in Rows : /\ users' = [users EXCEPT ![b].invite = 0, ![b].joined = TRUE]
                            /\ users[b].enabled
      BY <1>10 DEF AcceptInvite, Verified
    <2> QED BY <2>1, InviteEdit, BlockedEdit
  <1>11. ASSUME NEW t \in Tokens, CompletePasswordReset(t) PROVE KeepsLinks
    <2>1. PICK b \in Rows : users' = [users EXCEPT ![b].reset = 0] /\ users[b].enabled
      BY <1>11 DEF CompletePasswordReset, Verified
    <2> QED BY <2>1, ResetEdit, BlockedEdit
  <1>12. ASSUME NEW r \in Requests,
                \/ \E n \in Names, role \in Roles, e \in Emails \cup {NoEmail}, i \in BOOLEAN :
                     CreateCheck(r, n, role, e, i)
                \/ \E b \in Ids, e \in Emails \cup {NoEmail} : SetEmailCheck(r, b, e)
                \/ \E b \in Ids : ResendLookup(r, b)
                \/ \E e \in Emails : ForgotLookup(r, e)
                \/ ResendPending(r) \/ Abandon(r)
         PROVE  KeepsLinks
    BY <1>1, <1>12 DEF CreateCheck, SetEmailCheck, ResendLookup, ForgotLookup,
                       ResendPending, Abandon
  <1> QED BY <1>2, <1>3, <1>4, <1>5, <1>6, <1>7, <1>8, <1>9, <1>10, <1>11, <1>12 DEF Next

(* Disabling blocks: whatever requests race, no link of an account is      *)
(* completed while the account is disabled.                                *)
THEOREM LinksStopWithAccount == Spec => DisabledIsBlocked
  <1>1. AdminInv /\ [Next]_vars => [KeepsLinks]_vars
    BY BlockedNext
  <1>2. Init => AdminInv
    BY AdminInit
  <1>3. AdminInv /\ [Next]_vars => AdminInv'
    BY AdminNext
  <1> QED BY <1>1, <1>2, <1>3, PTL DEF Spec, DisabledIsBlocked, KeepsLinks

=============================================================================
