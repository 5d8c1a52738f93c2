--------------------------- MODULE ShelvesProofs ---------------------------
(***************************************************************************)
(* Proofs about Shelves for every set of users, names, books and           *)
(* concurrent requests, and every limit and bound.                         *)
(***************************************************************************)
EXTENDS Shelves, FiniteSetTheorems, TLAPS

(* What a request that has been admitted carries: the handlers below read  *)
(* nothing else of it.                                                     *)
OnShelf == {"rename", "delete", "show", "enroll", "expel", "look", "put", "take"}

Admitted(q) ==
  /\ q \in Req
  /\ q.pc \in {"create", "rename"} => q.about \in Names
  /\ q.pc = "show" => q.about \in Visibilities
  /\ q.pc \in {"enroll", "expel", "wipe", "remove"} => q.about \in Users
  /\ q.pc \in {"look", "put", "take"} => q.about \in Books
  /\ q.pc \in {"page", "ensure", "create"} => q.user \in Users
  /\ q.pc = "create" /\ q.scope = Nobody => q.user \in Managers
  /\ q.pc \in OnShelf => q.shelf \in Known

AllAdmitted == \A r \in Requests : Admitted(req[r])

(* Every row, dangling ones included, has an id that was given out.        *)
IdsAreKnown == Live \subseteq Known /\ \A x \in members \cup onShelf : x[1] \in Known

Inv == TypeOK /\ AllAdmitted /\ IdsAreKnown

-----------------------------------------------------------------------------
LEMMA InitInv == Init => Inv
  BY ShelvesAssumption
     DEF Init, Inv, TypeOK, AllAdmitted, Admitted, OnShelf, Req, Idle, Steps,
         IdsAreKnown, Live, Known, Ids

LEMMA IdleAdmitted == Admitted(Idle)
  BY DEF Admitted, Idle, Req, Steps, OnShelf

(* A step that changes one request and no table.                           *)
LEMMA ReqStep ==
  ASSUME Inv, NEW r \in Requests, NEW q, Admitted(q),
         req' = [req EXCEPT ![r] = q], UNCHANGED db,
         accounts' \in [Users -> {"absent", "enabled", "disabled"}],
         changes' \in 0 .. MaxChanges
  PROVE  Inv'
  <1>1. TypeOK'
    BY DEF Inv, TypeOK, db, Admitted
  <1>2. AllAdmitted'
    BY DEF Inv, TypeOK, AllAdmitted, Admitted, OnShelf, Known, db
  <1>3. IdsAreKnown'
    BY DEF Inv, IdsAreKnown, Live, Known, db
  <1> QED BY <1>1, <1>2, <1>3 DEF Inv

LEMMA AskInv ==
  ASSUME Inv, NEW r \in Requests, NEW q, Admitted(q), Ask(r, q)
  PROVE  Inv'
  BY ReqStep DEF Ask, Inv, TypeOK

(* A request that returns after writing the tables.                        *)
LEMMA WriteInv ==
  ASSUME Inv, NEW r \in Requests, Return(r) \/ (GoTo(r, "remove") /\ At(r, "wipe")),
         UNCHANGED <<accounts, changes>>,
         shelves' \in [Ids -> Shelf \cup {NoShelf}],
         nextId' \in 1 .. MaxShelves + 1, nextId' >= nextId,
         members' \subseteq Ids \X Users, onShelf' \subseteq Ids \X Books,
         IdsAreKnown'
  PROVE  Inv'
  <1> DEFINE q == req'[r]
  <1>1. req \in [Requests -> Req] /\ Admitted(req[r])
    BY DEF Inv, TypeOK, AllAdmitted
  <1>2. req' = [req EXCEPT ![r] = q] /\ Admitted(q)
    <2>1. CASE Return(r)
      BY <1>1, <2>1, IdleAdmitted DEF Return
    <2>2. CASE GoTo(r, "remove") /\ At(r, "wipe")
      BY <1>1, <2>2 DEF GoTo, At, Admitted, OnShelf, Req, Steps
    <2> QED BY <2>1, <2>2
  <1>3. Known \subseteq Known'
    BY ShelvesAssumption DEF Inv, TypeOK, Known, Ids
  <1>4. TypeOK'
    BY <1>1, <1>2 DEF Inv, TypeOK, Admitted
  <1>5. \A o \in Requests : req'[o] = req[o] \/ req'[o] = q
    BY <1>1, <1>2
  <1>6. \A p : Admitted(p) => Admitted(p)'
    BY <1>3 DEF Admitted, OnShelf
  <1>7. AllAdmitted'
    BY <1>2, <1>5, <1>6 DEF Inv, AllAdmitted
  <1> QED BY <1>4, <1>7 DEF Inv

(* What can be inserted, and what the new row does to the sets.            *)
LEMMA Insertion ==
  ASSUME Inv, NEW u \in Users, NEW n \in Names, NEW system \in BOOLEAN, NEW fav \in BOOLEAN,
         NewShelf(u, n, system, fav), UNCHANGED <<members, onShelf>>
  PROVE  /\ shelves' \in [Ids -> Shelf \cup {NoShelf}]
         /\ nextId \in Ids /\ nextId \notin Live /\ nextId' = nextId + 1
         /\ nextId' \in 1 .. MaxShelves + 1
         /\ Live' = Live \cup {nextId}
         /\ shelves'[nextId] = [owner |-> u, name |-> n, system |-> system,
                               fav |-> fav, vis |-> "private"]
         /\ \A s \in Ids \ {nextId} : shelves'[s] = shelves[s]
         /\ IdsAreKnown'
  <1> DEFINE row == [owner |-> u, name |-> n, system |-> system, fav |-> fav,
                     vis |-> "private"]
  <1>1. row \in Shelf
    BY DEF Shelf, Visibilities
  <1>2. nextId \in Ids /\ nextId \in Nat /\ nextId' = nextId + 1
        /\ shelves' = [shelves EXCEPT ![nextId] = row]
    BY ShelvesAssumption DEF NewShelf, Ids
  <1>3. shelves \in [Ids -> Shelf \cup {NoShelf}] /\ Live \subseteq Known
    BY DEF Inv, TypeOK, IdsAreKnown
  <1>4. nextId \notin Live /\ Live' = Live \cup {nextId}
    BY <1>1, <1>2, <1>3, NoShelfAssumption DEF Live, Known
  <1>5. Known' = Known \cup {nextId}
    BY <1>2, ShelvesAssumption DEF Known, Ids
  <1>6. IdsAreKnown'
    BY <1>4, <1>5 DEF Inv, IdsAreKnown
  <1>7. nextId' \in 1 .. MaxShelves + 1
    BY <1>2, ShelvesAssumption DEF Ids
  <1> QED BY <1>1, <1>2, <1>3, <1>4, <1>6, <1>7

(* The edit of one live row.                                               *)
LEMMA Edit ==
  ASSUME Inv, NEW s \in Live, NEW row \in Shelf, shelves' = [shelves EXCEPT ![s] = row]
  PROVE  /\ shelves' \in [Ids -> Shelf \cup {NoShelf}]
         /\ Live' = Live /\ shelves'[s] = row
         /\ \A t \in Ids \ {s} : shelves'[t] = shelves[t]
  BY NoShelfAssumption DEF Inv, TypeOK, Live

LEMMA LiveRows == ASSUME Inv, NEW s \in Live PROVE s \in Ids /\ shelves[s] \in Shelf
  BY DEF Inv, TypeOK, Live

LEMMA NextIdType == ASSUME Inv PROVE nextId \in Nat /\ nextId \in 1 .. MaxShelves + 1
  BY ShelvesAssumption DEF Inv, TypeOK

-----------------------------------------------------------------------------
LEMMA StartInv ==
  ASSUME Inv, NEW r \in Requests, NEW u \in Users, Start(r, u)
  PROVE  Inv'
  <1> USE DEF Q
  <1>1. CASE AskPage(r, u)
    <2>1. Admitted(Q("page", u, 0, Nobody))
      BY DEF Admitted, OnShelf, Req, Steps
    <2> QED BY <1>1, <2>1, AskInv DEF AskPage
  <1>2. CASE AskWipe(r, u)
    <2> DEFINE q == [Idle EXCEPT !.pc = "wipe", !.about = u]
    <2>1. Admitted(q)
      BY DEF Admitted, OnShelf, Req, Steps, Idle
    <2>2. changes' \in 0 .. MaxChanges
      BY <1>2, ShelvesAssumption DEF AskWipe, Inv, TypeOK
    <2> QED BY <1>2, <2>1, <2>2, ReqStep DEF AskWipe, Inv, TypeOK
  <1>3. ASSUME NEW n \in Names, AskCreate(r, u, n) PROVE Inv'
    <2> DEFINE q == [Q("create", u, 0, n) EXCEPT
                       !.scope = IF u \in Managers THEN Nobody ELSE u]
    <2>1. Admitted(q)
      BY ShelvesAssumption DEF Admitted, OnShelf, Req, Steps
    <2> QED BY <1>3, <2>1, AskInv DEF AskCreate, AskScoped
  <1>4. ASSUME NEW s \in Ids, NEW n \in Names, AskRename(r, u, s, n) PROVE Inv'
    <2> DEFINE q == [Q("rename", u, s, n) EXCEPT
                       !.scope = IF u \in Managers THEN Nobody ELSE u]
    <2>1. Admitted(q) /\ Admitted(Q("rename", u, s, n))
      BY <1>4 DEF AskRename, Admitted, OnShelf, Req, Steps
    <2> QED BY <1>4, <2>1, AskInv DEF AskRename, AskScoped
  <1>5. ASSUME NEW s \in Ids, AskDelete(r, u, s) PROVE Inv'
    <2> DEFINE q == [Q("delete", u, s, Nobody) EXCEPT
                       !.scope = IF u \in Managers THEN Nobody ELSE u]
    <2>1. Admitted(q)
      BY <1>5 DEF AskDelete, Admitted, OnShelf, Req, Steps
    <2> QED BY <1>5, <2>1, AskInv DEF AskDelete, AskScoped
  <1>6. ASSUME NEW s \in Ids, NEW v \in Asked, AskShow(r, u, s, v) PROVE Inv'
    <2> DEFINE q == [Q("show", u, s, v) EXCEPT
                       !.scope = IF u \in Managers THEN Nobody ELSE u]
    <2>1. Admitted(q)
      BY <1>6, ShelvesAssumption DEF AskShow, Admitted, OnShelf, Req, Steps, Visibilities
    <2> QED BY <1>6, <2>1, AskInv DEF AskShow, AskScoped
  <1>7. ASSUME NEW s \in Ids, NEW m \in Users, AskAdd(r, u, s, m) PROVE Inv'
    <2>1. s \in Known
      BY <1>7 DEF AskAdd, OwnShared, Own, OwnedBy, Inv, IdsAreKnown
    <2>2. Admitted(Q("enroll", u, s, m))
      BY <2>1 DEF Admitted, OnShelf, Req, Steps
    <2> QED BY <1>7, <2>2, AskInv DEF AskAdd
  <1>8. ASSUME NEW s \in Ids, NEW m \in Users, AskRevoke(r, u, s, m) PROVE Inv'
    <2>1. s \in Known
      BY <1>8 DEF AskRevoke, OwnShared, Own, OwnedBy, Inv, IdsAreKnown
    <2>2. Admitted(Q("expel", u, s, m))
      BY <2>1 DEF Admitted, OnShelf, Req, Steps
    <2> QED BY <1>8, <2>2, AskInv DEF AskRevoke
  <1>9. ASSUME NEW s \in Ids, NEW b \in Books, AskToggle(r, u, s, b) PROVE Inv'
    <2>1. s \in Known
      BY <1>9 DEF AskToggle, MayEdit, Inv, IdsAreKnown
    <2>2. Admitted(Q("look", u, s, b))
      BY <2>1 DEF Admitted, OnShelf, Req, Steps
    <2> QED BY <1>9, <2>2, AskInv DEF AskToggle
  <1> QED
    BY <1>1, <1>2, <1>3, <1>4, <1>5, <1>6, <1>7, <1>8, <1>9 DEF Start

-----------------------------------------------------------------------------
LEMMA HandleInv ==
  ASSUME Inv, NEW r \in Requests, Handle(r)
  PROVE  Inv'
  <1> DEFINE q == req[r]
             s == req[r].shelf
  <1>1. Admitted(q) /\ q \in Req /\ nextId \in Nat
    BY NextIdType DEF Inv, AllAdmitted, Admitted
  <1>2. CASE EnsureSelect(r)
    <2> DEFINE p == [q EXCEPT !.pc = "ensure"]
    <2>1. Admitted(p) \/ ~ At(r, "page")
      BY <1>1 DEF Admitted, OnShelf, Req, Steps, At
    <2>2. \E x : Admitted(x) /\ req' = [req EXCEPT ![r] = x]
      BY <1>2, <2>1, IdleAdmitted DEF EnsureSelect, Return, GoTo, Inv, TypeOK
    <2> QED BY <1>2, <2>2, ReqStep DEF EnsureSelect, Inv, TypeOK
  <1>3. CASE EnsureInsert(r)
    <2>1. q.user \in Users /\ Return(r)
      BY <1>1, <1>3 DEF EnsureInsert, At, Admitted
    <2>2. CASE HasFav(q.user)
      BY <1>3, <2>2, IdleAdmitted, ReqStep DEF EnsureInsert, Return, Inv, TypeOK, db
    <2>3. CASE ~ HasFav(q.user)
      <3>1. NewShelf(q.user, Favourites, TRUE, TRUE) /\ UNCHANGED <<members, onShelf>>
        BY <1>3, <2>3 DEF EnsureInsert
      <3>2. shelves' \in [Ids -> Shelf \cup {NoShelf}] /\ nextId' = nextId + 1
            /\ nextId' \in 1 .. MaxShelves + 1 /\ IdsAreKnown'
        BY <2>1, <3>1, Insertion, ShelvesAssumption
      <3> QED BY <1>1, <1>3, <2>1, <3>1, <3>2, WriteInv DEF EnsureInsert, Inv, TypeOK
    <2> QED BY <2>2, <2>3
  <1>4. CASE CreateShelf(r)
    <2> DEFINE u == q.user
               n == q.about
    <2>1. u \in Users /\ n \in Names /\ Return(r)
      BY <1>1, <1>4 DEF CreateShelf, At, Admitted
    <2>2. CASE ~ (QuotaLeft(r) /\ Named(u, n) = {})
      BY <1>4, <2>2, IdleAdmitted, ReqStep DEF CreateShelf, Return, Inv, TypeOK, db
    <2>3. CASE QuotaLeft(r) /\ Named(u, n) = {}
      <3> DEFINE fav == n = Favourites /\ ~ HasFav(u)
      <3>1. NewShelf(u, n, FALSE, fav) /\ UNCHANGED <<members, onShelf>>
        BY <1>4, <2>3 DEF CreateShelf
      <3>2. shelves' \in [Ids -> Shelf \cup {NoShelf}] /\ nextId' = nextId + 1
            /\ nextId' \in 1 .. MaxShelves + 1 /\ IdsAreKnown'
        <4> HIDE DEF fav
        <4>1. fav \in BOOLEAN
          BY DEF fav
        <4> QED BY <2>1, <3>1, <4>1, Insertion
      <3> QED BY <1>1, <1>4, <2>1, <3>1, <3>2, WriteInv DEF CreateShelf, Inv, TypeOK
    <2> QED BY <2>2, <2>3
  <1>5. CASE RenameShelf(r)
    <2> DEFINE row == [shelves[s] EXCEPT !.name = q.about]
    <2>1. q.about \in Names /\ Return(r)
      BY <1>1, <1>5 DEF RenameShelf, At, Admitted
    <2>2. CASE UNCHANGED shelves
      BY <1>5, <2>2, <2>1, IdleAdmitted, ReqStep DEF RenameShelf, Return, Inv, TypeOK, db
    <2>3. CASE InScope(r) /\ shelves' = [shelves EXCEPT ![s].name = q.about]
      <3>1. s \in Live
        BY <2>3 DEF InScope
      <3>2. row \in Shelf /\ shelves' = [shelves EXCEPT ![s] = row]
        BY <2>1, <2>3, <3>1, LiveRows DEF Shelf
      <3>3. shelves' \in [Ids -> Shelf \cup {NoShelf}] /\ Live' = Live
        BY <3>1, <3>2, Edit
      <3>4. IdsAreKnown'
        BY <1>5, <3>3 DEF RenameShelf, Inv, IdsAreKnown, Known
      <3> QED BY <1>1, <1>5, <2>1, <3>3, <3>4, WriteInv DEF RenameShelf, Inv, TypeOK
    <2> QED BY <1>5, <2>2, <2>3 DEF RenameShelf
  <1>6. CASE DeleteShelf(r)
    <2>1. Return(r)
      BY <1>6 DEF DeleteShelf
    <2>2. CASE ~ InScope(r)
      BY <1>6, <2>1, <2>2, IdleAdmitted, ReqStep DEF DeleteShelf, Return, Inv, TypeOK, db
    <2>3. CASE InScope(r)
      <3>1. shelves' = [shelves EXCEPT ![s] = NoShelf] /\ members' \subseteq members
            /\ onShelf' \subseteq onShelf /\ UNCHANGED nextId
        BY <1>6, <2>3 DEF DeleteShelf
      <3>2. shelves' \in [Ids -> Shelf \cup {NoShelf}] /\ Live' \subseteq Live
        BY <3>1 DEF Inv, TypeOK, Live
      <3>3. IdsAreKnown'
        BY <3>1, <3>2 DEF Inv, IdsAreKnown, Known
      <3> QED BY <1>1, <1>6, <2>1, <3>1, <3>2, <3>3, WriteInv DEF DeleteShelf, Inv, TypeOK
    <2> QED BY <2>2, <2>3
  <1>7. CASE SetVisibility(r)
    <2> DEFINE row == [shelves[s] EXCEPT !.vis = q.about]
    <2>1. q.about \in Visibilities /\ Return(r)
      BY <1>1, <1>7 DEF SetVisibility, At, Admitted
    <2>2. CASE UNCHANGED shelves
      BY <1>7, <2>1, <2>2, IdleAdmitted, ReqStep DEF SetVisibility, Return, Inv, TypeOK, db
    <2>3. CASE InScope(r) /\ shelves' = [shelves EXCEPT ![s].vis = q.about]
      <3>1. s \in Live
        BY <2>3 DEF InScope
      <3>2. row \in Shelf /\ shelves' = [shelves EXCEPT ![s] = row]
        BY <2>1, <2>3, <3>1, LiveRows DEF Shelf
      <3>3. shelves' \in [Ids -> Shelf \cup {NoShelf}] /\ Live' = Live
        BY <3>1, <3>2, Edit
      <3>4. IdsAreKnown'
        BY <1>7, <3>3 DEF SetVisibility, Inv, IdsAreKnown, Known
      <3> QED BY <1>1, <1>7, <2>1, <3>3, <3>4, WriteInv DEF SetVisibility, Inv, TypeOK
    <2> QED BY <1>7, <2>2, <2>3 DEF SetVisibility
  <1>8. CASE AddInsert(r)
    <2>1. s \in Known /\ s \in Ids /\ q.about \in Users
      BY <1>1, <1>8 DEF AddInsert, At, Admitted, OnShelf, Known
    <2>2. IdsAreKnown'
      BY <1>8, <2>1 DEF AddInsert, Inv, IdsAreKnown, Live, Known
    <2> QED BY <1>1, <1>8, <2>1, <2>2, WriteInv DEF AddInsert, Inv, TypeOK
  <1>9. CASE RevokeDelete(r)
    <2>1. IdsAreKnown'
      BY <1>9 DEF RevokeDelete, Inv, IdsAreKnown, Live, Known
    <2> QED BY <1>1, <1>9, <2>1, WriteInv DEF RevokeDelete, Inv, TypeOK
  <1>10. CASE ToggleLook(r)
    <2> DEFINE x == [q EXCEPT !.pc = IF <<s, q.about>> \in onShelf THEN "take" ELSE "put"]
    <2>1. Admitted(x)
      BY <1>1, <1>10 DEF ToggleLook, Admitted, OnShelf, Req, Steps, At
    <2>2. req' = [req EXCEPT ![r] = x]
      BY <1>10 DEF ToggleLook, GoTo, Inv, TypeOK
    <2> QED BY <1>10, <2>1, <2>2, ReqStep DEF ToggleLook, Inv, TypeOK
  <1>11. CASE ToggleWrite(r)
    <2>1. s \in Known /\ s \in Ids /\ q.about \in Books
      BY <1>1, <1>11 DEF ToggleWrite, At, Admitted, OnShelf, Known
    <2>2. onShelf' \subseteq onShelf \cup {<<s, q.about>>}
      BY <1>11 DEF ToggleWrite
    <2>3. IdsAreKnown'
      BY <1>11, <2>1, <2>2 DEF ToggleWrite, Inv, IdsAreKnown, Live, Known
    <2> QED BY <1>1, <1>11, <2>1, <2>2, <2>3, WriteInv DEF ToggleWrite, Inv, TypeOK
  <1>12. CASE WipeShelves(r)
    <2>1. members' \subseteq members /\ onShelf' \subseteq onShelf /\ UNCHANGED nextId
      BY <1>12 DEF WipeShelves
    <2>2. shelves' \in [Ids -> Shelf \cup {NoShelf}] /\ Live' \subseteq Live
      BY <1>12 DEF WipeShelves, Inv, TypeOK, Live
    <2>3. IdsAreKnown'
      BY <2>1, <2>2 DEF Inv, IdsAreKnown, Known
    <2> QED BY <1>1, <1>12, <2>1, <2>2, <2>3, WriteInv DEF WipeShelves, Inv, TypeOK
  <1>13. CASE RemoveAccount(r)
    <2>1. accounts' \in [Users -> {"absent", "enabled", "disabled"}]
      BY <1>13 DEF RemoveAccount, Inv, TypeOK
    <2> QED BY <1>13, <2>1, IdleAdmitted, ReqStep DEF RemoveAccount, Return, Inv, TypeOK
  <1> QED
    BY <1>2, <1>3, <1>4, <1>5, <1>6, <1>7, <1>8, <1>9, <1>10, <1>11, <1>12, <1>13 DEF Handle

LEMMA NextInv == Inv /\ [Next]_vars => Inv'
  <1> SUFFICES ASSUME Inv, [Next]_vars PROVE Inv'
    OBVIOUS
  <1>1. ASSUME NEW u \in Users, CreateAccount(u) PROVE Inv'
    <2>1. TypeOK'
      BY <1>1 DEF CreateAccount, Inv, TypeOK, db
    <2> QED BY <1>1, <2>1 DEF CreateAccount, Inv, AllAdmitted, Admitted, IdsAreKnown,
                              Live, Known, db
  <1>2. ASSUME NEW u \in Users, SetEnabled(u) PROVE Inv'
    <2>1. TypeOK'
      BY <1>2, ShelvesAssumption DEF SetEnabled, Inv, TypeOK, db
    <2> QED BY <1>2, <2>1 DEF SetEnabled, Inv, AllAdmitted, Admitted, IdsAreKnown,
                              Live, Known, db
  <1>3. CASE UNCHANGED vars
    <2>1. TypeOK'
      BY <1>3 DEF vars, Inv, TypeOK
    <2> QED BY <1>3, <2>1 DEF vars, Inv, AllAdmitted, Admitted, IdsAreKnown, Live, Known
  <1> QED BY <1>1, <1>2, <1>3, StartInv, HandleInv DEF Next

(* In every reachable state the rows are well formed and nothing mentions  *)
(* an id that has not been given out.                                      *)
THEOREM InvariantHolds == Spec => []Inv
  <1> QED BY InitInv, NextInv, PTL DEF Spec

(* Every variable keeps its type.                                          *)
THEOREM TypeCorrect == Spec => []TypeOK
  <1>1. Inv => TypeOK
    BY DEF Inv
  <1> QED BY <1>1, InvariantHolds, PTL

-----------------------------------------------------------------------------
(* What a step may do to the table of shelves: insert one row, under the   *)
(* conditions of EnsureSystemShelf and CreateShelf, or change and delete   *)
(* rows without touching their owner, slug and kind.                       *)

Inserts ==
  \E u \in Users, n \in Names, system \in BOOLEAN, fav \in BOOLEAN :
    /\ NewShelf(u, n, system, fav) /\ UNCHANGED <<members, onShelf>>
    /\ fav => ~ HasFav(u)
    /\ system \/ u \in Managers \/ Cardinality(Own(u)) < Limit

Keeps ==
  \A s \in Live' : /\ s \in Live
                   /\ shelves'[s].owner = shelves[s].owner
                   /\ shelves'[s].system = shelves[s].system
                   /\ shelves'[s].fav = shelves[s].fav

(* The system shelves that the step does not leave alone are those of an   *)
(* account that is being deleted.                                          *)
Spares ==
  \A s \in Live : shelves[s].system /\ shelves'[s] # shelves[s] =>
    \E r \in Requests : At(r, "wipe") /\ req[r].about = shelves[s].owner

LEMMA UnchangedKeeps == ASSUME UNCHANGED shelves PROVE Keeps /\ Spares
  BY DEF Keeps, Spares, Live

LEMMA InsertSpares == ASSUME Inv, Inserts PROVE Spares
  <1>1. PICK u \in Users, n \in Names, system \in BOOLEAN, fav \in BOOLEAN :
          NewShelf(u, n, system, fav) /\ UNCHANGED <<members, onShelf>>
    BY DEF Inserts
  <1>2. nextId \notin Live /\ \A s \in Ids \ {nextId} : shelves'[s] = shelves[s]
    BY <1>1, Insertion
  <1> QED BY <1>2 DEF Spares, Live

LEMMA HandleShape ==
  ASSUME Inv, NEW r \in Requests, Handle(r)
  PROVE  (Inserts \/ Keeps) /\ Spares
  <1> DEFINE q == req[r]
             s == req[r].shelf
  <1>1. Admitted(q)
    BY DEF Inv, AllAdmitted
  <1>2. CASE EnsureInsert(r)
    <2>1. q.user \in Users
      BY <1>1, <1>2 DEF EnsureInsert, At, Admitted
    <2>2. CASE HasFav(q.user)
      BY <1>2, <2>2, UnchangedKeeps DEF EnsureInsert
    <2>3. CASE ~ HasFav(q.user)
      <3>1. NewShelf(q.user, Favourites, TRUE, TRUE) /\ UNCHANGED <<members, onShelf>>
        BY <1>2, <2>3 DEF EnsureInsert
      <3>2. Inserts
        BY <2>1, <2>3, <3>1, ShelvesAssumption DEF Inserts
      <3> QED BY <3>2, InsertSpares
    <2> QED BY <2>2, <2>3
  <1>3. CASE CreateShelf(r)
    <2> DEFINE u == q.user
               n == q.about
               fav == n = Favourites /\ ~ HasFav(u)
    <2>1. u \in Users /\ n \in Names /\ (q.scope = Nobody => u \in Managers)
      BY <1>1, <1>3 DEF CreateShelf, At, Admitted
    <2>2. CASE ~ (QuotaLeft(r) /\ Named(u, n) = {})
      BY <1>3, <2>2, UnchangedKeeps DEF CreateShelf
    <2>3. CASE QuotaLeft(r) /\ Named(u, n) = {}
      <3>1. NewShelf(u, n, FALSE, fav) /\ UNCHANGED <<members, onShelf>>
        BY <1>3, <2>3 DEF CreateShelf
      <3>2. u \in Managers \/ Cardinality(Own(u)) < Limit
        BY <2>1, <2>3 DEF QuotaLeft
      <3>3. fav \in BOOLEAN /\ (fav => ~ HasFav(u))
        OBVIOUS
      <3>4. Inserts
        <4> HIDE DEF fav, u, n
        <4> QED BY <2>1, <3>1, <3>2, <3>3 DEF Inserts
      <3> QED BY <3>4, InsertSpares
    <2> QED BY <2>2, <2>3
  <1>4. CASE RenameShelf(r) \/ SetVisibility(r)
    <2>1. CASE UNCHANGED shelves
      BY <2>1, UnchangedKeeps
    <2>2. CASE /\ InScope(r)
               /\ \/ shelves' = [shelves EXCEPT ![s].name = q.about]
                  \/ shelves' = [shelves EXCEPT ![s].vis = q.about]
      <3>0. s \in Live /\ ~ shelves[s].system
        BY <2>2 DEF InScope
      <3>1. s \in Live /\ s \in Ids /\ shelves[s] \in Shelf /\ ~ shelves[s].system
        BY <3>0, LiveRows
      <3>2. /\ shelves'[s].owner = shelves[s].owner /\ shelves'[s].fav = shelves[s].fav
            /\ shelves'[s].system = shelves[s].system
            /\ \A t \in Ids \ {s} : shelves'[t] = shelves[t]
        BY <2>2, <3>1 DEF Inv, TypeOK, Shelf
      <3> QED BY <3>1, <3>2 DEF Keeps, Spares, Live
    <2> QED BY <1>4, <2>1, <2>2 DEF RenameShelf, SetVisibility
  <1>5. CASE DeleteShelf(r)
    <2>1. CASE ~ InScope(r)
      BY <1>5, <2>1, UnchangedKeeps DEF DeleteShelf
    <2>2. CASE InScope(r)
      <3>1. shelves' = [shelves EXCEPT ![s] = NoShelf] /\ ~ shelves[s].system
        BY <1>5, <2>2 DEF DeleteShelf, InScope
      <3> QED BY <3>1 DEF Keeps, Spares, Live, Inv, TypeOK
    <2> QED BY <2>1, <2>2
  <1>6. CASE WipeShelves(r)
    <2>1. At(r, "wipe") /\ \A t \in Ids :
            shelves'[t] = IF t \in OwnedBy(q.about) THEN NoShelf ELSE shelves[t]
      BY <1>6 DEF WipeShelves
    <2> QED BY <2>1 DEF Keeps, Spares, Live, OwnedBy
  <1>7. CASE EnsureSelect(r) \/ AddInsert(r) \/ RevokeDelete(r) \/ ToggleLook(r)
             \/ ToggleWrite(r) \/ RemoveAccount(r)
    <2>1. UNCHANGED shelves
      BY <1>7 DEF EnsureSelect, AddInsert, RevokeDelete, ToggleLook, ToggleWrite,
                  RemoveAccount, db
    <2> QED BY <2>1, UnchangedKeeps
  <1> QED BY <1>2, <1>3, <1>4, <1>5, <1>6, <1>7 DEF Handle

LEMMA StartKeeps ==
  ASSUME NEW r \in Requests, NEW u \in Users, Start(r, u)
  PROVE  UNCHANGED shelves
  <1>1. \A q : Ask(r, q) => UNCHANGED shelves
    BY DEF Ask, db
  <1>2. \A q : AskScoped(r, q) => UNCHANGED shelves
    BY <1>1 DEF AskScoped
  <1> QED
    BY <1>1, <1>2 DEF Start, AskPage, AskWipe, AskCreate, AskRename, AskDelete, AskShow,
                      AskAdd, AskRevoke, AskToggle, db

LEMMA StepShape == ASSUME Inv, [Next]_vars PROVE (Inserts \/ Keeps) /\ Spares
  <1>1. CASE \E r \in Requests : Handle(r)
    BY <1>1, HandleShape
  <1>2. CASE ~ \E r \in Requests : Handle(r)
    <2>1. UNCHANGED shelves
      BY <1>2, StartKeeps DEF Next, CreateAccount, SetEnabled, db, vars
    <2> QED BY <2>1, UnchangedKeeps
  <1> QED BY <1>1, <1>2

-----------------------------------------------------------------------------
(* Pages that are rendered together make one Favourites shelf per reader.  *)
THEOREM OneFavouritesEach == Spec => []LoneFavourites
  <1>1. Init => LoneFavourites
    BY DEF Init, LoneFavourites, Live
  <1>2. ASSUME Inv, LoneFavourites, [Next]_vars PROVE LoneFavourites'
    <2>1. CASE Keeps
      BY <1>2, <2>1 DEF Keeps, LoneFavourites
    <2>2. CASE Inserts
      <3>1. PICK u \in Users, n \in Names, system \in BOOLEAN, fav \in BOOLEAN :
              /\ NewShelf(u, n, system, fav) /\ UNCHANGED <<members, onShelf>>
              /\ fav => ~ HasFav(u)
        BY <2>2 DEF Inserts
      <3> DEFINE row == [owner |-> u, name |-> n, system |-> system, fav |-> fav,
                         vis |-> "private"]
      <3>0. /\ nextId \in Ids /\ nextId \notin Live /\ Live' = Live \cup {nextId}
            /\ shelves'[nextId] = row
            /\ \A s \in Ids \ {nextId} : shelves'[s] = shelves[s]
        BY <1>2, <3>1, Insertion
      <3>2. /\ nextId \in Ids /\ nextId \notin Live /\ Live' = Live \cup {nextId}
            /\ shelves'[nextId].owner = u /\ shelves'[nextId].fav = fav
            /\ \A s \in Ids \ {nextId} : shelves'[s] = shelves[s]
        BY <3>0
      <3>3. \A s \in Live : s \in Ids /\ s # nextId /\ shelves'[s] = shelves[s]
        BY <3>2 DEF Live
      <3>4. fav => \A s \in Live : ~ (shelves[s].owner = u /\ shelves[s].fav)
        BY <3>1 DEF HasFav, OwnedBy
      <3> QED BY <1>2, <3>2, <3>3, <3>4 DEF LoneFavourites
    <2> QED BY <1>2, <2>1, <2>2, StepShape
  <1>3. Spec => [](Inv /\ LoneFavourites)
    <2>1. Inv /\ LoneFavourites /\ [Next]_vars => (Inv /\ LoneFavourites)'
      BY <1>2, NextInv
    <2> QED BY <1>1, <2>1, InitInv, PTL DEF Spec
  <1> QED BY <1>3, PTL

LEMMA OwnIsFinite == ASSUME NEW u PROVE IsFiniteSet(Own(u)) /\ Cardinality(Own(u)) \in Nat
  <1>1. IsFiniteSet(Ids)
    BY FS_Interval, ShelvesAssumption DEF Ids
  <1>2. Own(u) \subseteq Ids
    BY DEF Own, OwnedBy, Live
  <1> QED BY <1>1, <1>2, FS_Subset, FS_CardinalityType

(* However many requests to create a shelf are served together, a reader   *)
(* who may not manage shelves never owns more than the limit.              *)
THEOREM LimitIsKept == Spec => []WithinLimit
  <1>1. Init => WithinLimit
    <2> SUFFICES ASSUME Init, NEW u \in Users PROVE Cardinality(Own(u)) <= Limit
      BY DEF WithinLimit
    <2>1. Own(u) = {}
      BY DEF Init, Own, OwnedBy, Live
    <2> QED BY <2>1, FS_EmptySet, ShelvesAssumption
  <1>2. ASSUME Inv, WithinLimit, [Next]_vars PROVE WithinLimit'
    <2> SUFFICES ASSUME NEW v \in Users \ Managers
                 PROVE  Cardinality(Own(v)') <= Limit
      BY DEF WithinLimit
    <2>1. Cardinality(Own(v)) <= Limit /\ IsFiniteSet(Own(v)) /\ Cardinality(Own(v)) \in Nat
      BY <1>2, OwnIsFinite DEF WithinLimit
    <2>2. ASSUME Own(v)' \subseteq Own(v) PROVE Cardinality(Own(v)') <= Limit
      <3>1. Cardinality(Own(v)') <= Cardinality(Own(v)) /\ Cardinality(Own(v)') \in Nat
        BY <2>1, <2>2, FS_Subset, FS_CardinalityType
      <3> QED BY <2>1, <3>1, ShelvesAssumption
    <2>3. CASE Keeps
      BY <2>2, <2>3 DEF Keeps, Own, OwnedBy
    <2>4. CASE Inserts
      <3>1. PICK u \in Users, n \in Names, system \in BOOLEAN, fav \in BOOLEAN :
              /\ NewShelf(u, n, system, fav) /\ UNCHANGED <<members, onShelf>>
              /\ system \/ u \in Managers \/ Cardinality(Own(u)) < Limit
        BY <2>4 DEF Inserts
      <3> DEFINE row == [owner |-> u, name |-> n, system |-> system, fav |-> fav,
                         vis |-> "private"]
      <3>0. /\ nextId \in Ids /\ nextId \notin Live /\ Live' = Live \cup {nextId}
            /\ shelves'[nextId] = row
            /\ \A s \in Ids \ {nextId} : shelves'[s] = shelves[s]
        BY <1>2, <3>1, Insertion
      <3>2. /\ nextId \in Ids /\ nextId \notin Live /\ Live' = Live \cup {nextId}
            /\ shelves'[nextId].owner = u /\ shelves'[nextId].system = system
            /\ \A s \in Ids \ {nextId} : shelves'[s] = shelves[s]
        BY <3>0
      <3>3. \A s \in Live : s \in Ids /\ s # nextId /\ shelves'[s] = shelves[s]
        BY <3>2 DEF Live
      <3>4. CASE system \/ u # v
        BY <2>2, <3>2, <3>3, <3>4 DEF Own, OwnedBy
      <3>5. CASE ~ system /\ u = v
        <4>1. Own(v)' = Own(v) \cup {nextId} /\ nextId \notin Own(v)
          BY <3>2, <3>3, <3>5 DEF Own, OwnedBy
        <4>2. Cardinality(Own(v)') = Cardinality(Own(v)) + 1
          BY <2>1, <4>1, FS_AddElement
        <4> QED BY <2>1, <3>1, <3>5, <4>2, ShelvesAssumption
      <3> QED BY <3>4, <3>5
    <2> QED BY <1>2, <2>3, <2>4, StepShape
  <1>3. Spec => [](Inv /\ WithinLimit)
    <2>1. Inv /\ WithinLimit /\ [Next]_vars => (Inv /\ WithinLimit)'
      BY <1>2, NextInv
    <2> QED BY <1>1, <2>1, InitInv, PTL DEF Spec
  <1> QED BY <1>3, PTL

(* What a race leaves behind for a shelf that was deleted is never         *)
(* inherited by another shelf: its id is not given out again.              *)
THEOREM DanglingIsHarmless == Spec => DanglingStaysDangling
  <1>1. ASSUME Inv, [Next]_vars PROVE Dangling \cap Live' = {}
    <2>1. Dangling \subseteq Known \ Live
      BY <1>1 DEF Dangling, Inv, IdsAreKnown
    <2>2. CASE Keeps
      BY <2>1, <2>2 DEF Keeps
    <2>3. CASE Inserts
      <3>1. PICK u \in Users, n \in Names, system \in BOOLEAN, fav \in BOOLEAN :
              NewShelf(u, n, system, fav) /\ UNCHANGED <<members, onShelf>>
        BY <2>3 DEF Inserts
      <3>2. Live' = Live \cup {nextId}
        BY <1>1, <3>1, Insertion
      <3>3. nextId \notin Known
        BY <1>1, NextIdType DEF Known
      <3> QED BY <2>1, <3>2, <3>3
    <2> QED BY <1>1, <2>2, <2>3, StepShape
  <1>2. Inv /\ [Next]_vars => [Dangling \cap Live' = {}]_vars
    BY <1>1
  <1> QED BY <1>2, InvariantHolds, PTL DEF Spec, DanglingStaysDangling

(* Only the deletion of an account takes a system shelf away or changes it.*)
THEOREM FavouritesAreKept == Spec => FavouritesStay
  <1>1. ASSUME Inv, [Next]_vars
        PROVE  \A s \in Live :
                 shelves[s].system /\ shelves'[s] # shelves[s]
                   => \E r \in Requests : At(r, "wipe") /\ req[r].about = shelves[s].owner
    BY <1>1, StepShape DEF Spares
  <1> DEFINE Stay == \A s \in Live :
                       shelves[s].system /\ shelves'[s] # shelves[s]
                         => \E r \in Requests : At(r, "wipe")
                                                /\ req[r].about = shelves[s].owner
  <1>2. Inv /\ [Next]_vars => [Stay]_vars
    BY <1>1
  <1> QED BY <1>2, InvariantHolds, PTL DEF Spec, FavouritesStay
=============================================================================
