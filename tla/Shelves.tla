------------------------------- MODULE Shelves -------------------------------
(***************************************************************************)
(* Shelves and their sharing: the tables shelves, shelf_members and        *)
(* shelf_books (index/shelves.go), and the handlers that change them       *)
(* (web/handlers.go, web/handlers_library.go).  They are in another        *)
(* database than the accounts, so a handler that needs both works in       *)
(* steps, and an account can be deleted, disabled or made again between.   *)
(*                                                                         *)
(* Every statement, or transaction, is a step of its own.  A shelf's name  *)
(* stands for all the names that compare equal; of the slugs only the one  *)
(* of Favourites is ever looked up, and last_used_at orders only a list.   *)
(***************************************************************************)
EXTENDS Naturals, FiniteSets

CONSTANTS
  Users,       \* usernames
  Owners,      \* those whose account has the permission own_shelves
  Managers,    \* those whose account has the permission manage_shelves
  Publishers,  \* those whose account has the permission create_public_shelves
  Asked,       \* the visibilities that are asked for
  Names,       \* names of shelves, Favourites among them
  Favourites,  \* the name of the system shelf
  Books,       \* ids of books
  Requests,    \* requests served at a time
  Nobody,      \* no user
  NoShelf,     \* no such row
  Limit,       \* general_settings.shelf_limit
  MaxShelves,  \* bound on the ids given out by shelves.id AUTOINCREMENT
  MaxChanges   \* bound on the times an account is disabled, enabled or deleted

Ids == 1 .. MaxShelves

ASSUME ShelvesAssumption ==
  /\ Owners \subseteq Users /\ Managers \subseteq Users /\ Publishers \subseteq Users
  /\ Favourites \in Names /\ Asked \subseteq {"private", "shared", "public"}
  /\ Nobody \notin Users
  /\ Limit \in Nat \ {0}
  /\ MaxShelves \in Nat /\ MaxChanges \in Nat

VARIABLES
  accounts,  \* the state of each account: absent, enabled or disabled
  shelves,   \* table shelves
  nextId,    \* the next id of shelves
  members,   \* table shelf_members: pairs of a shelf and a username
  onShelf,   \* table shelf_books: pairs of a shelf and a book
  req,       \* the request each handler goroutine serves
  changes    \* times an account was disabled, enabled or deleted so far

db   == <<shelves, nextId, members, onShelf>>
vars == <<accounts, shelves, nextId, members, onShelf, req, changes>>

Visibilities == {"private", "shared", "public"}

(* fav: does the row hold Favourites' slug?                                *)
Shelf == [owner : Users, name : Names, system : BOOLEAN, fav : BOOLEAN,
          vis : Visibilities]
ASSUME NoShelfAssumption == NoShelf \notin Shelf

Live      == {s \in Ids : shelves[s] # NoShelf}
OwnedBy(u) == {s \in Live : shelves[s].owner = u}
Own(u)    == {s \in OwnedBy(u) : ~ shelves[s].system}

MayEdit(u, s) == s \in Live /\ (shelves[s].owner = u \/ <<s, u>> \in members)

(* A request: the step it is at, who asks, the shelf it is about, the other *)
(* user or the value it names, and scope, whose shelves it may touch (or,  *)
(* of its maker's, how many): Nobody stands for everyone's.                *)
Steps == {"idle", "page", "ensure", "create", "rename", "delete", "show",
          "enroll", "expel", "look", "put", "take", "wipe", "remove"}

Req == [pc : Steps, user : Users \cup {Nobody}, shelf : Ids \cup {0},
        about : Users \cup Books \cup Names \cup Visibilities \cup {Nobody},
        scope : Users \cup {Nobody}]

Idle == [pc |-> "idle", user |-> Nobody, shelf |-> 0, about |-> Nobody,
         scope |-> Nobody]

Init ==
  /\ accounts = [u \in Users |-> "absent"]
  /\ shelves = [s \in Ids |-> NoShelf] /\ nextId = 1
  /\ members = {} /\ onShelf = {}
  /\ req = [r \in Requests |-> Idle]
  /\ changes = 0

At(r, pc)     == req[r].pc = pc
GoTo(r, pc)   == req' = [req EXCEPT ![r].pc = pc]
Return(r)     == req' = [req EXCEPT ![r] = Idle]

-----------------------------------------------------------------------------
(* Accounts, and the start of a request: whoever asks has an enabled       *)
(* account when the session is verified.                                   *)

CreateAccount(u) ==
  /\ accounts[u] = "absent"
  /\ accounts' = [accounts EXCEPT ![u] = "enabled"]
  /\ UNCHANGED <<db, req, changes>>

SetEnabled(u) ==
  /\ changes < MaxChanges /\ changes' = changes + 1
  /\ \/ accounts[u] = "enabled" /\ accounts' = [accounts EXCEPT ![u] = "disabled"]
     \/ accounts[u] = "disabled" /\ accounts' = [accounts EXCEPT ![u] = "enabled"]
  /\ UNCHANGED <<db, req>>

Ask(r, q) ==
  /\ At(r, "idle") /\ accounts[q.user] = "enabled"
  /\ req' = [req EXCEPT ![r] = q]
  /\ UNCHANGED <<accounts, db, changes>>

Q(pc, u, s, x) == [pc |-> pc, user |-> u, shelf |-> s, about |-> x, scope |-> u]

(* Some handlers ask next whether the account may manage every shelf.      *)
AskScoped(r, q) ==
  Ask(r, [q EXCEPT !.scope = IF q.user \in Managers THEN Nobody ELSE q.user])

(* A shelf a request names is one that some page has shown.                *)
Known == {s \in Ids : s < nextId}

AskPage(r, u) == Ask(r, Q("page", u, 0, Nobody))

AskCreate(r, u, n) == u \in Owners /\ AskScoped(r, Q("create", u, 0, n))

(* A rename from the account's own page does not ask.                      *)
AskRename(r, u, s, n) ==
  /\ s \in Known
  /\ \/ AskScoped(r, Q("rename", u, s, n))
     \/ u \in Owners /\ Ask(r, Q("rename", u, s, n))

AskDelete(r, u, s) == s \in Known /\ AskScoped(r, Q("delete", u, s, Nobody))

AskShow(r, u, s, v) ==
  /\ s \in Known
  /\ v = "public" => u \in Managers \cup Publishers
  /\ AskScoped(r, Q("show", u, s, v))

(* Where the handler's first statement only reads, the request enters with *)
(* that statement, once the session was verified; a refusal changes nothing.*)
(* The shelf must be the caller's, no system shelf, and not private; the   *)
(* member to be must be another with an enabled account.                   *)
OwnShared(u) == {s \in Own(u) : shelves[s].vis # "private"}

AskAdd(r, u, s, m) ==
  /\ u \in Owners /\ m # u /\ accounts[m] = "enabled" /\ s \in OwnShared(u)
  /\ Ask(r, Q("enroll", u, s, m))

AskRevoke(r, u, s, m) ==
  /\ u \in Owners /\ s \in OwnShared(u)
  /\ Ask(r, Q("expel", u, s, m))

AskToggle(r, u, s, b) == MayEdit(u, s) /\ Ask(r, Q("look", u, s, b))

-----------------------------------------------------------------------------
(* EnsureSystemShelf, called for every page: a SELECT by slug, and an      *)
(* INSERT that a row with that slug refuses.                               *)

HasFav(u) == \E s \in OwnedBy(u) : shelves[s].fav

(* Mutant: ids are given out again (no AUTOINCREMENT).                     *)
NewShelfAnywhere(u, n, system, fav) ==
  \E id \in Ids \ Live :
    /\ shelves' = [shelves EXCEPT ![id] =
                     [owner |-> u, name |-> n, system |-> system, fav |-> fav,
                      vis |-> "private"]]
    /\ nextId' = IF id = nextId THEN nextId + 1 ELSE nextId

NewShelf(u, n, system, fav) ==
  /\ nextId \in Ids
  /\ shelves' = [shelves EXCEPT ![nextId] =
                   [owner |-> u, name |-> n, system |-> system, fav |-> fav,
                    vis |-> "private"]]
  /\ nextId' = nextId + 1

EnsureSelect(r) ==
  /\ At(r, "page")
  /\ IF HasFav(req[r].user) THEN Return(r) ELSE GoTo(r, "ensure")
  /\ UNCHANGED <<accounts, db, changes>>

(* Mutant: without the UNIQUE constraint on (username, slug).              *)
EnsureAgain(r) ==
  /\ At(r, "ensure")
  /\ Return(r)
  /\ NewShelf(req[r].user, Favourites, TRUE, TRUE)
  /\ UNCHANGED <<accounts, members, onShelf, changes>>

EnsureInsert(r) ==
  /\ At(r, "ensure")
  /\ Return(r)
  /\ IF HasFav(req[r].user)
     THEN UNCHANGED <<shelves, nextId>>
     ELSE NewShelf(req[r].user, Favourites, TRUE, TRUE)
  /\ UNCHANGED <<accounts, members, onShelf, changes>>

(* CreateShelf counts and inserts in one transaction.                      *)
Named(u, n) == {s \in Own(u) : shelves[s].name = n}

(* Mutant: off by one.                                                     *)
QuotaLeftOne(r) ==
  LET u == req[r].user IN req[r].scope = Nobody \/ Cardinality(Own(u)) <= Limit

QuotaLeft(r) ==
  LET u == req[r].user IN req[r].scope = Nobody \/ Cardinality(Own(u)) < Limit

CreateShelf(r) ==
  LET u == req[r].user
      n == req[r].about
  IN
  /\ At(r, "create")
  /\ Return(r)
  /\ IF QuotaLeft(r) /\ Named(u, n) = {}
     THEN NewShelf(u, n, FALSE, n = Favourites /\ ~ HasFav(u))
     ELSE UNCHANGED <<shelves, nextId>>
  /\ UNCHANGED <<accounts, members, onShelf, changes>>

(* Mutant: without the condition is_system = 0.                            *)
InScopeAny(r) ==
  LET s == req[r].shelf IN
  s \in Live /\ req[r].scope \in {Nobody, shelves[s].owner}

InScope(r) ==
  LET s == req[r].shelf IN
  /\ s \in Live /\ ~ shelves[s].system
  /\ req[r].scope \in {Nobody, shelves[s].owner}

(* The UNIQUE index on (username, name) refuses a name that is taken.      *)
RenameShelf(r) ==
  LET s == req[r].shelf
      n == req[r].about
  IN
  /\ At(r, "rename")
  /\ Return(r)
  /\ shelves' = IF InScope(r) /\ Named(shelves[s].owner, n) \subseteq {s}
                THEN [shelves EXCEPT ![s].name = n] ELSE shelves
  /\ UNCHANGED <<accounts, nextId, members, onShelf, changes>>

DeleteShelf(r) ==
  LET s == req[r].shelf IN
  /\ At(r, "delete")
  /\ Return(r)
  /\ IF InScope(r)
     THEN /\ shelves' = [shelves EXCEPT ![s] = NoShelf]
          /\ members' = {m \in members : m[1] # s}
          /\ onShelf' = {b \in onShelf : b[1] # s}
     ELSE UNCHANGED <<shelves, members, onShelf>>
  /\ UNCHANGED <<accounts, nextId, changes>>

(* Only the visibility changes: the members stay.                          *)
SetVisibility(r) ==
  LET s == req[r].shelf IN
  /\ At(r, "show")
  /\ Return(r)
  /\ shelves' = IF InScope(r) THEN [shelves EXCEPT ![s].vis = req[r].about] ELSE shelves
  /\ UNCHANGED <<accounts, nextId, members, onShelf, changes>>

-----------------------------------------------------------------------------
(* Members.                                                                *)

AddInsert(r) ==
  /\ At(r, "enroll")
  /\ Return(r)
  /\ members' = members \cup {<<req[r].shelf, req[r].about>>}
  /\ UNCHANGED <<accounts, shelves, nextId, onShelf, changes>>

RevokeDelete(r) ==
  /\ At(r, "expel")
  /\ Return(r)
  /\ members' = members \ {<<req[r].shelf, req[r].about>>}
  /\ UNCHANGED <<accounts, shelves, nextId, onShelf, changes>>

-----------------------------------------------------------------------------
(* ShelfToggle.                                                            *)

ToggleLook(r) ==
  /\ At(r, "look")
  /\ GoTo(r, IF <<req[r].shelf, req[r].about>> \in onShelf THEN "take" ELSE "put")
  /\ UNCHANGED <<accounts, db, changes>>

ToggleWrite(r) ==
  LET sb == <<req[r].shelf, req[r].about>> IN
  /\ \/ At(r, "put") /\ onShelf' = onShelf \cup {sb}
     \/ At(r, "take") /\ onShelf' = onShelf \ {sb}
  /\ Return(r)
  /\ UNCHANGED <<accounts, shelves, nextId, members, changes>>

-----------------------------------------------------------------------------
(* AdminUsersDelete: the shelves in one transaction, then the account in   *)
(* another, which refuses when it has become the last administrator's.     *)

AskWipe(r, u) ==
  /\ At(r, "idle") /\ accounts[u] # "absent" /\ changes < MaxChanges
  /\ changes' = changes + 1
  /\ req' = [req EXCEPT ![r] = [Idle EXCEPT !.pc = "wipe", !.about = u]]
  /\ UNCHANGED <<accounts, db>>

WipeShelves(r) ==
  LET u == req[r].about
      gone == OwnedBy(u)
  IN
  /\ At(r, "wipe")
  /\ GoTo(r, "remove")
  /\ shelves' = [s \in Ids |-> IF s \in gone THEN NoShelf ELSE shelves[s]]
  /\ members' = {m \in members : m[2] # u /\ m[1] \notin gone}
  /\ onShelf' = {b \in onShelf : b[1] \notin gone}
  /\ UNCHANGED <<accounts, nextId, changes>>

RemoveAccount(r) ==
  /\ At(r, "remove")
  /\ Return(r)
  /\ accounts' \in {accounts, [accounts EXCEPT ![req[r].about] = "absent"]}
  /\ UNCHANGED <<db, changes>>

Handle(r) ==
  \/ EnsureSelect(r) \/ EnsureInsert(r) \/ CreateShelf(r)
  \/ RenameShelf(r) \/ DeleteShelf(r) \/ SetVisibility(r)
  \/ AddInsert(r) \/ RevokeDelete(r)
  \/ ToggleLook(r) \/ ToggleWrite(r)
  \/ WipeShelves(r) \/ RemoveAccount(r)

Start(r, u) ==
  \/ AskPage(r, u) \/ AskWipe(r, u)
  \/ \E n \in Names : AskCreate(r, u, n)
  \/ \E s \in Ids :
       \/ AskDelete(r, u, s)
       \/ \E n \in Names : AskRename(r, u, s, n)
       \/ \E v \in Asked : AskShow(r, u, s, v)
       \/ \E m \in Users : AskAdd(r, u, s, m) \/ AskRevoke(r, u, s, m)
       \/ \E b \in Books : AskToggle(r, u, s, b)

Next ==
  \/ \E u \in Users : CreateAccount(u) \/ SetEnabled(u)
  \/ \E r \in Requests : Handle(r) \/ \E u \in Users : Start(r, u)

Spec == Init /\ [][Next]_vars

-----------------------------------------------------------------------------
TypeOK ==
  /\ accounts \in [Users -> {"absent", "enabled", "disabled"}]
  /\ shelves \in [Ids -> Shelf \cup {NoShelf}] /\ nextId \in 1 .. MaxShelves + 1
  /\ members \subseteq Ids \X Users /\ onShelf \subseteq Ids \X Books
  /\ req \in [Requests -> Req] /\ changes \in 0 .. MaxChanges

(* Who may not manage shelves never owns more than the limit, however many *)
(* requests to create one are served together.                             *)
WithinLimit == \A u \in Users \ Managers : Cardinality(Own(u)) <= Limit

(* Pages that are rendered together make one Favourites shelf.             *)
LoneFavourites ==
  \A s, t \in Live :
    shelves[s].owner = shelves[t].owner /\ shelves[s].fav /\ shelves[t].fav => s = t

(* The rows that a race leaves for a shelf that has been deleted (a member *)
(* or a book inserted after the delete) never become another shelf's.      *)
Dangling == {x[1] : x \in members \cup onShelf} \ Live

DanglingStaysDangling == [][Dangling \cap Live' = {}]_vars

(* No request about a shelf, an owner's or a manager's, changes the system *)
(* shelf of a reader; only the deletion of the account takes it away.      *)
FavouritesStay ==
  [][\A s \in Live :
       shelves[s].system /\ shelves'[s] # shelves[s]
         => \E r \in Requests : At(r, "wipe") /\ req[r].about = shelves[s].owner]_vars

-----------------------------------------------------------------------------
(* What the code says and does not do.                                     *)

(* "private shelves cannot have members"                                   *)
PrivateHasNoMembers ==
  \A m \in members : m[1] \in Live => shelves[m[1]].vis # "private"

(* Deleting a user removes the shelves owned by the user and the user's    *)
(* membership in the shelves of others.                                    *)
AbsentOwnNothing ==
  \A u \in Users : accounts[u] = "absent" =>
    OwnedBy(u) = {} /\ \A m \in members : m[1] \in Live => m[2] # u
=============================================================================
