------------------------- MODULE LibraryIndexProofs -------------------------
(***************************************************************************)
(* Proofs about LibraryIndex for every set of roots, names, titles, ISBNs, *)
(* shelves and callbacks, and every bound.                                 *)
(***************************************************************************)
EXTENDS LibraryIndex, FiniteSetTheorems, WellFoundedInduction, TLAPS

-----------------------------------------------------------------------------
(* First and FirstIn.                                                      *)

LEMMA FirstIsLeast ==
  ASSUME NEW S \in SUBSET Nat, S # {}
  PROVE  First(S) \in S /\ \A m \in S : First(S) <= m
  <1> DEFINE R == OpToRel(<, Nat)
  <1>1. IsWellFoundedOn(R, Nat)
    BY NatLessThanWellFounded
  <1>2. \A x, y \in Nat : y < x => <<y, x>> \in R
    BY DEF OpToRel
  <1> HIDE DEF R
  <1>3. PICK x \in S : \A y \in S : ~ (<<y, x>> \in R)
    BY <1>1, WFMin
  <1>4. \A y \in S : ~ (y < x)
    BY <1>2, <1>3
  <1>5. \E n \in S : \A m \in S : n <= m
    BY <1>4
  <1> QED BY <1>5 DEF First

LEMMA PathIsPair ==
  ASSUME NEW f \in Paths
  PROVE  f[1] \in Roots /\ f[2] \in Names /\ f = <<f[1], f[2]>>
  BY DEF Paths

LEMMA FirstInIsIn ==
  ASSUME NEW T \in SUBSET Paths, T # {}
  PROVE  FirstIn(T) \in T
  <1> DEFINE r == First({f[1] : f \in T})
             N == {f[2] : f \in {g \in T : g[1] = r}}
  <1>1. {f[1] : f \in T} \in SUBSET Nat /\ {f[1] : f \in T} # {}
    BY PathIsPair, IndexAssumption
  <1>2. r \in {f[1] : f \in T}
    BY <1>1, FirstIsLeast
  <1>3. N \in SUBSET Nat /\ N # {}
    BY <1>2, PathIsPair, IndexAssumption
  <1>4. First(N) \in N
    BY <1>3, FirstIsLeast
  <1>5. PICK f \in T : f[1] = r /\ f[2] = First(N)
    BY <1>4
  <1>6. FirstIn(T) = <<r, First(N)>>
    BY DEF FirstIn
  <1> QED BY <1>5, <1>6, PathIsPair

(* A title with more than one book has two.                                *)
LEMMA TwinsAreTwo ==
  ASSUME NEW t
  PROVE  /\ Cardinality(SameTitle(t)) \in Nat
         /\ Cardinality(SameTitle(t)) > 1 <=> \E a, b \in SameTitle(t) : a # b
  <1> DEFINE S == SameTitle(t)
  <1>1. IsFiniteSet(S)
    <2>1. IsFiniteSet(Ids)
      BY FS_Interval, IndexAssumption DEF Ids
    <2>2. S \in SUBSET Ids
      BY DEF SameTitle, Rows
    <2> QED BY <2>1, <2>2, FS_Subset
  <1>2. Cardinality(S) \in Nat
    BY <1>1, FS_CardinalityType
  <1>3. Cardinality(S) = 0 <=> S = {}
    BY <1>1, FS_EmptySet
  <1>4. Cardinality(S) = 1 <=> \E x : S = {x}
    BY <1>1, FS_Singleton
  <1>5. (\E a, b \in S : a # b) <=> S # {} /\ ~ \E x : S = {x}
    OBVIOUS
  <1> QED BY <1>2, <1>3, <1>4, <1>5

-----------------------------------------------------------------------------
HasFile == {"stat", "refresh", "lookBook", "find", "attach", "insert", "update",
            "lookGone", "unlocate", "promote"}
HasBook == {"attach", "update", "locs", "deleteBook", "promote", "pickIsbn", "merge"}

Parsed(f, s, t) ==
  f \in OnDisk /\ disk[f].stamp = s /\ ~ disk[f].like => t = disk[f].title

SoundOp(o) ==
  /\ o \in Op
  /\ o.pc \in HasFile => o.file \in Paths
  /\ o.pc \in HasBook => o.book \in Ids
  /\ o.pc = "merge" => o.drop \in Ids /\ o.drop # o.book
  /\ o.book < nextId /\ o.drop < nextId /\ o.stamp <= changes
  /\ o.pc \in {"find", "insert", "update"} => Parsed(o.file, o.stamp, o.title)

SoundBook(r) ==
  /\ r \in Book /\ r.stamp <= changes
  /\ r.own => Parsed(r.file, r.stamp, r.title)

SoundLoc(r) == r \in Loc /\ r.stamp <= changes /\ r.book < nextId

SoundGroup(g) ==
  /\ g \in Group /\ g.rest # {} /\ g.keep \notin g.rest
  /\ g.keep < nextId /\ \A b \in g.rest : b < nextId

SoundEnv ==
  /\ disk \in [Paths -> File \cup {NoRow}] /\ changes \in 0 .. MaxChanges
  /\ likes \in 0 .. MaxLike
  /\ \A f \in OnDisk : disk[f].stamp <= changes
  /\ timer \in [Paths -> Kinds \cup {"none"}] /\ loose \subseteq Paths \X Kinds
  /\ firing \in [Callbacks -> Paths \cup {NoRow}]

SoundDb ==
  /\ nextId \in 1 .. MaxBooks + 1
  /\ issued \subseteq Ids /\ \A b \in issued : b < nextId
  /\ books \in [Ids -> Book \cup {NoRow}]
  /\ \A b \in Rows : b < nextId /\ SoundBook(books[b])
  /\ locs \in [Paths -> Loc \cup {NoRow}]
  /\ \A f \in Located : SoundLoc(locs[f])
  /\ enr \in [Ids -> ISBNs \cup {NoRow}]
  /\ \A b \in Ids : enr[b] # NoRow => b < nextId
  /\ shelf \subseteq Shelves \X Ids

SoundOps == op \in [Procs -> Op] /\ \A p \in Procs : SoundOp(op[p])

SoundScan ==
  /\ scan \in Scans
  /\ \A b \in scan.stale : b < nextId
  /\ \A g \in scan.groups : SoundGroup(g)

SoundCtl ==
  /\ queued \in BOOLEAN /\ clear \in BOOLEAN /\ owed \in BOOLEAN
  /\ used \in [scans : 0 .. MaxScans, clears : 0 .. MaxClears, crashes : 0 .. MaxCrashes]

Sound == SoundEnv /\ SoundDb /\ SoundOps /\ SoundScan /\ SoundCtl

-----------------------------------------------------------------------------
LEMMA IdleIsSound ==
  ASSUME SoundEnv, SoundDb
  PROVE  SoundOp(Idle)
  BY DEF SoundEnv, SoundDb, SoundOp, Idle, Op, Contents, HasFile, HasBook

LEMMA NoScanIsSound == NoScan \in Scans
  BY DEF NoScan, Scans, Group

(* One goroutine moves on, and nothing but it is touched.                  *)
LEMMA OpMoves ==
  ASSUME SoundOps, NEW p \in Procs, NEW r, SoundOp(r)', Step(p, r)
  PROVE  /\ op' \in [Procs -> Op]
         /\ op'[p] = r
         /\ \A q \in Procs \ {p} : op'[q] = op[q]
  BY DEF SoundOps, SoundOp, Step

(* What is sound stays so while ids grow and no file changes.              *)
LEMMA OpStaysSound ==
  ASSUME SoundEnv, SoundDb, NEW o, SoundOp(o),
         UNCHANGED <<disk, changes>>, nextId' \in Nat, nextId <= nextId'
  PROVE  SoundOp(o)'
  BY DEF SoundOp, Op, Parsed, OnDisk, SoundDb, Ids

LEMMA OpsMove ==
  ASSUME SoundEnv, SoundDb, SoundOps, NEW p \in Procs, NEW r, SoundOp(r), Step(p, r),
         UNCHANGED <<disk, changes>>, nextId' \in Nat, nextId <= nextId'
  PROVE  SoundOps'
  <1>1. SoundOp(r)'
    BY OpStaysSound
  <1>2. /\ op' \in [Procs -> Op] /\ op'[p] = r
        /\ \A q \in Procs \ {p} : op'[q] = op[q]
    BY <1>1, OpMoves
  <1>3. \A q \in Procs : SoundOp(op[q])'
    <2> SUFFICES ASSUME NEW q \in Procs PROVE SoundOp(op[q])'
      OBVIOUS
    <2>1. CASE q = p
      BY <1>1, <1>2, <2>1
    <2>2. CASE q # p
      <3>1. SoundOp(op[q])
        BY DEF SoundOps
      <3> DEFINE o == op[q]
      <3>2. op'[q] = o
        BY <1>2, <2>2
      <3> HIDE DEF o
      <3> QED BY <1>2, <2>2, <3>1, <3>2, OpStaysSound
    <2> QED BY <2>1, <2>2
  <1> QED BY <1>2, <1>3 DEF SoundOps

(* A step that only moves one goroutine on.                                *)
LEMMA ReadKeeps ==
  ASSUME Sound, NEW p \in Procs, NEW r, SoundOp(r), Step(p, r),
         UNCHANGED <<env, db, scan, ctl>>
  PROVE  Sound'
  <1>1. SoundOps'
    BY OpsMove DEF Sound, env, db, SoundDb, Ids
  <1>2. SoundEnv' /\ SoundCtl'
    BY DEF Sound, env, ctl, SoundEnv, SoundCtl, OnDisk
  <1>3. SoundDb'
    BY DEF Sound, env, db, SoundDb, SoundBook, SoundLoc, Rows, Located, Parsed, OnDisk
  <1>4. SoundScan'
    BY DEF Sound, db, SoundScan, SoundGroup
  <1> QED BY <1>1, <1>2, <1>3, <1>4 DEF Sound

LEMMA ReturnKeeps ==
  ASSUME Sound, NEW p \in Procs, Return(p), UNCHANGED <<env, db, scan, ctl>>
  PROVE  Sound'
  BY IdleIsSound, ReadKeeps DEF Sound, Return

(* What an operation has at hand.                                          *)
LEMMA OpAtHand ==
  ASSUME SoundOps, NEW p \in Procs
  PROVE  /\ SoundOp(op[p]) /\ op[p] \in Op
         /\ op[p].pc \in HasFile => op[p].file \in Paths
         /\ op[p].pc \in HasBook => op[p].book \in Ids
  BY DEF SoundOps, SoundOp

-----------------------------------------------------------------------------
(* Sound, one lemma for each action.                                       *)

LEMMA UpsertLocationSound ==
  ASSUME Sound, NEW p \in Procs, UpsertLocation(p)
  PROVE  Sound'
  <1> DEFINE f == op[p].file
             pc == IF f \in Located THEN "refresh" ELSE "lookBook"
             r == [op[p] EXCEPT !.pc = pc, !.stamp = disk[f].stamp]
  <1>1. SoundOp(op[p]) /\ op[p] \in Op /\ f \in Paths
    BY OpAtHand DEF Sound, UpsertLocation, At, HasFile
  <1>2. CASE Return(p)
    BY <1>2, ReturnKeeps DEF UpsertLocation
  <1>3. CASE f \in OnDisk /\ Step(p, r)
    <2>1. disk[f].stamp \in Nat /\ disk[f].stamp <= changes
      BY <1>1, <1>3 DEF Sound, SoundEnv, OnDisk, File
    <2>2. pc \in {"refresh", "lookBook"}
      OBVIOUS
    <2> HIDE DEF pc
    <2>3. SoundOp(r)
      BY <1>1, <2>1, <2>2 DEF SoundOp, Op, HasFile, HasBook
    <2> HIDE DEF r
    <2> QED BY <1>3, <2>3, ReadKeeps DEF UpsertLocation
  <1> QED BY <1>2, <1>3 DEF UpsertLocation

LEMMA UpsertLookBookSound ==
  ASSUME Sound, NEW p \in Procs, UpsertLookBook(p)
  PROVE  Sound'
  <1> DEFINE f == op[p].file
             t == ParseFile(f)
  <1>1. SoundOp(op[p]) /\ op[p] \in Op /\ f \in Paths
    BY OpAtHand DEF Sound, UpsertLookBook, At, HasFile
  <1>2. t \in Contents /\ Parsed(f, op[p].stamp, t)
    BY <1>1 DEF ParseFile, Parsed, Sound, SoundEnv, OnDisk, File, Contents
  <1>3. UNCHANGED <<env, db, scan, ctl>>
    BY DEF UpsertLookBook
  <1> HIDE DEF t
  <1>4. ASSUME NEW pc \in {"insert", "find"}, Step(p, [op[p] EXCEPT !.pc = pc, !.title = t])
        PROVE  Sound'
    <2> DEFINE r == [op[p] EXCEPT !.pc = pc, !.title = t]
    <2>1. SoundOp(r)
      BY <1>1, <1>2 DEF SoundOp, Op, HasFile, HasBook
    <2>2. Step(p, r)
      BY <1>4
    <2> HIDE DEF r
    <2> QED BY <1>3, <2>1, <2>2, ReadKeeps
  <1>5. ASSUME NEW b \in BookAt(f),
               Step(p, [op[p] EXCEPT !.pc = "update", !.title = t, !.book = b])
        PROVE  Sound'
    <2> DEFINE r == [op[p] EXCEPT !.pc = "update", !.title = t, !.book = b]
    <2>1. b \in Ids /\ b < nextId
      BY DEF BookAt, Rows, Sound, SoundDb
    <2>2. SoundOp(r)
      BY <1>1, <1>2, <2>1 DEF SoundOp, Op, HasFile, HasBook
    <2>3. Step(p, r)
      BY <1>5
    <2> HIDE DEF r
    <2> QED BY <1>3, <2>2, <2>3, ReadKeeps
  <1>6. \/ Return(p)
        \/ \E pc \in {"insert", "find"} : Step(p, [op[p] EXCEPT !.pc = pc, !.title = t])
        \/ \E b \in BookAt(f) :
              Step(p, [op[p] EXCEPT !.pc = "update", !.title = t, !.book = b])
    BY DEF UpsertLookBook, t
  <1> QED BY <1>3, <1>4, <1>5, <1>6, ReturnKeeps

LEMMA UpsertFindSound ==
  ASSUME Sound, NEW p \in Procs, UpsertFind(p)
  PROVE  Sound'
  <1>1. SoundOp(op[p]) /\ op[p] \in Op /\ At(p, "find") /\ op[p].file \in Paths
    BY OpAtHand DEF Sound, UpsertFind, At, HasFile
  <1>2. UNCHANGED <<env, db, scan, ctl>>
    BY DEF UpsertFind
  <1>3. ASSUME Step(p, [op[p] EXCEPT !.pc = "insert"]) PROVE Sound'
    <2> DEFINE r == [op[p] EXCEPT !.pc = "insert"]
    <2>1. SoundOp(r)
      BY <1>1 DEF At, SoundOp, Op, HasFile, HasBook
    <2>2. Step(p, r)
      BY <1>3
    <2> HIDE DEF r
    <2> QED BY <1>2, <2>1, <2>2, ReadKeeps
  <1>4. ASSUME NEW b \in Rows, Step(p, [op[p] EXCEPT !.pc = "attach", !.book = b])
        PROVE  Sound'
    <2> DEFINE r == [op[p] EXCEPT !.pc = "attach", !.book = b]
    <2>1. b \in Ids /\ b < nextId
      BY DEF Rows, Sound, SoundDb
    <2>2. SoundOp(r)
      BY <1>1, <2>1 DEF SoundOp, Op, HasFile, HasBook
    <2>3. Step(p, r)
      BY <1>4
    <2> HIDE DEF r
    <2> QED BY <1>2, <2>2, <2>3, ReadKeeps
  <1> QED BY <1>3, <1>4 DEF UpsertFind

LEMMA DeleteLookupSound ==
  ASSUME Sound, NEW p \in Procs, DeleteLookup(p)
  PROVE  Sound'
  <1>1. SoundOp(op[p]) /\ op[p] \in Op /\ op[p].file \in Paths
    BY OpAtHand DEF Sound, DeleteLookup, At, HasFile
  <1>2. UNCHANGED <<env, db, scan, ctl>>
    BY DEF DeleteLookup
  <1>3. ASSUME Step(p, [op[p] EXCEPT !.pc = "unlocate"]) PROVE Sound'
    <2> DEFINE r == [op[p] EXCEPT !.pc = "unlocate"]
    <2>1. SoundOp(r)
      BY <1>1 DEF SoundOp, Op, HasFile, HasBook
    <2>2. Step(p, r)
      BY <1>3
    <2> HIDE DEF r
    <2> QED BY <1>2, <2>1, <2>2, ReadKeeps
  <1>4. ASSUME NEW b \in BookAt(op[p].file),
               Step(p, [op[p] EXCEPT !.pc = "locs", !.book = b, !.file = NoRow])
        PROVE  Sound'
    <2> DEFINE r == [op[p] EXCEPT !.pc = "locs", !.book = b, !.file = NoRow]
    <2>1. b \in Ids /\ b < nextId
      BY DEF BookAt, Rows, Sound, SoundDb
    <2>2. SoundOp(r)
      BY <1>1, <2>1 DEF SoundOp, Op, HasFile, HasBook
    <2>3. Step(p, r)
      BY <1>4
    <2> HIDE DEF r
    <2> QED BY <1>2, <2>2, <2>3, ReadKeeps
  <1> QED BY <1>3, <1>4 DEF DeleteLookup

LEMMA RemoveReadLocsSound ==
  ASSUME Sound, NEW p \in Procs, RemoveReadLocs(p)
  PROVE  Sound'
  <1>1. SoundOp(op[p]) /\ op[p] \in Op /\ op[p].book \in Ids
    BY OpAtHand DEF Sound, RemoveReadLocs, At, HasBook
  <1>2. UNCHANGED <<env, db, scan, ctl>>
    BY DEF RemoveReadLocs
  <1>3. ASSUME Step(p, [op[p] EXCEPT !.pc = "deleteBook"]) PROVE Sound'
    <2> DEFINE r == [op[p] EXCEPT !.pc = "deleteBook"]
    <2>1. SoundOp(r)
      BY <1>1 DEF SoundOp, Op, HasFile, HasBook
    <2>2. Step(p, r)
      BY <1>3
    <2> HIDE DEF r
    <2> QED BY <1>2, <2>1, <2>2, ReadKeeps
  <1>4. ASSUME NEW f \in LocsOf(op[p].book),
               Step(p, [op[p] EXCEPT !.pc = "promote", !.file = f, !.stamp = locs[f].stamp])
        PROVE  Sound'
    <2> DEFINE r == [op[p] EXCEPT !.pc = "promote", !.file = f, !.stamp = locs[f].stamp]
    <2>1. f \in Paths /\ locs[f].stamp \in Nat /\ locs[f].stamp <= changes
      BY DEF LocsOf, Located, Sound, SoundDb, SoundLoc, Loc
    <2>2. SoundOp(r)
      BY <1>1, <2>1 DEF SoundOp, Op, HasFile, HasBook
    <2>3. Step(p, r)
      BY <1>4
    <2> HIDE DEF r
    <2> QED BY <1>2, <2>2, <2>3, ReadKeeps
  <1> QED BY <1>3, <1>4 DEF RemoveReadLocs

LEMMA PickedIsSound ==
  ASSUME SoundEnv, SoundDb, NEW a \in Ids, NEW b \in Ids, a # b, a < nextId, b < nextId
  PROVE  /\ SoundOp(Picked(a, b))
         /\ Picked(a, b).pc = "merge"
         /\ \/ Picked(a, b).book = a /\ Picked(a, b).drop = b
            \/ Picked(a, b).book = b /\ Picked(a, b).drop = a
  <1> DEFINE M(x, y) == [Idle EXCEPT !.pc = "merge", !.book = x, !.drop = y]
  <1>1. ASSUME NEW x \in Ids, NEW y \in Ids, x # y, x < nextId, y < nextId
        PROVE  SoundOp(M(x, y)) /\ M(x, y).pc = "merge" /\ M(x, y).book = x /\ M(x, y).drop = y
    BY <1>1, IdleIsSound DEF SoundOp, Idle, Op, HasFile, HasBook
  <1>2. Picked(a, b) = M(a, b) \/ Picked(a, b) = M(b, a)
    BY DEF Picked
  <1> HIDE DEF M
  <1> QED BY <1>1, <1>2

LEMMA MergeDuplicateISBNSound ==
  ASSUME Sound, MergeDuplicateISBN
  PROVE  Sound'
  <1> DEFINE b == op[Enricher].book
  <1>1. b \in Ids /\ b < nextId /\ Enricher \in Procs
    BY OpAtHand DEF Procs, Sound, MergeDuplicateISBN, At, HasBook, SoundOp
  <1>2. UNCHANGED <<env, db, scan, ctl>>
    BY DEF MergeDuplicateISBN
  <1>3. ASSUME NEW o \in SameIsbn(b), Step(Enricher, Picked(b, o)) PROVE Sound'
    <2>1. o \in Ids /\ o # b /\ o < nextId
      BY DEF SameIsbn, Sound, SoundDb
    <2> QED BY <1>1, <1>2, <1>3, <2>1, PickedIsSound, ReadKeeps DEF Sound
  <1> QED BY <1>1, <1>2, <1>3, ReturnKeeps DEF MergeDuplicateISBN

(* A step that ends an operation and writes to tables.                     *)
LEMMA WriteKeeps ==
  ASSUME Sound, NEW p \in Procs, Return(p), SoundDb', nextId <= nextId',
         scan' \in {scan, NoScan}, UNCHANGED <<env, ctl>>
  PROVE  Sound'
  <1>1. nextId \in Nat /\ nextId' \in Nat
    BY IndexAssumption DEF Sound, SoundDb
  <1>2. SoundOps'
    BY <1>1, IdleIsSound, OpsMove DEF Sound, env, Return
  <1>3. SoundEnv' /\ SoundCtl'
    BY DEF Sound, env, ctl, SoundEnv, SoundCtl, OnDisk
  <1>4. SoundScan'
    <2>1. CASE scan' = scan
      BY <1>1, <2>1 DEF Sound, SoundScan, SoundGroup, Scans, Group, Ids
    <2>2. CASE scan' = NoScan
      BY <2>2, NoScanIsSound DEF SoundScan, NoScan
    <2> QED BY <2>1, <2>2
  <1> QED BY <1>2, <1>3, <1>4 DEF Sound

LEMMA BookWrittenKeeps ==
  ASSUME Sound, NEW p \in Procs, Return(p), NEW b \in Ids, NEW r,
         r = NoRow \/ SoundBook(r), books' = [books EXCEPT ![b] = r],
         nextId' \in 1 .. MaxBooks + 1, nextId <= nextId', b < nextId',
         issued' \in {issued, issued \cup {b}},
         UNCHANGED <<env, locs, enr, shelf, scan, ctl>>
  PROVE  Sound'
  <1>1. nextId \in Nat /\ nextId' \in Nat
    BY IndexAssumption DEF Sound, SoundDb
  <1>2. /\ books' \in [Ids -> Book \cup {NoRow}]
        /\ books'[b] = r
        /\ \A a \in Ids \ {b} : books'[a] = books[a]
    BY DEF Sound, SoundDb, SoundBook
  <1>3. ASSUME NEW a \in Rows' PROVE a < nextId' /\ SoundBook(books[a])'
    <2>1. CASE a = b
      BY <1>2, <2>1 DEF Rows, SoundBook, Parsed, OnDisk, env
    <2>2. CASE a # b
      <3>1. a \in Rows /\ a \in Nat /\ books'[a] = books[a]
        BY <1>2, <2>2 DEF Rows, Ids
      <3>2. a < nextId /\ SoundBook(books[a])
        BY <3>1 DEF Sound, SoundDb
      <3> QED BY <1>1, <3>1, <3>2 DEF SoundBook, Parsed, OnDisk, env
    <2> QED BY <2>1, <2>2
  <1>4. \A f \in Located' : SoundLoc(locs[f])'
    BY <1>1 DEF Sound, SoundDb, SoundLoc, Located, Loc, Ids, env
  <1>5. /\ \A c \in Ids : enr'[c] # NoRow => c < nextId'
        /\ issued' \subseteq Ids /\ \A c \in issued' : c < nextId'
    <2>1. \A c \in Ids : c \in Nat
      BY DEF Ids
    <2> QED BY <1>1, <2>1 DEF Sound, SoundDb
  <1>6. SoundDb'
    BY <1>2, <1>3, <1>4, <1>5 DEF Sound, SoundDb
  <1> QED BY <1>6, WriteKeeps

LEMMA LocsWrittenKeep ==
  ASSUME Sound, NEW p \in Procs, Return(p),
         locs' \in [Paths -> Loc \cup {NoRow}],
         \A f \in Paths : locs'[f] # NoRow => SoundLoc(locs'[f]),
         UNCHANGED <<env, books, nextId, issued, enr, shelf, scan, ctl>>
  PROVE  Sound'
  <1>1. nextId \in Nat
    BY IndexAssumption DEF Sound, SoundDb
  <1>2. \A f \in Located' : SoundLoc(locs[f])'
    BY DEF Located, SoundLoc, env
  <1>3. SoundDb'
    BY <1>2 DEF Sound, SoundDb, Rows, SoundBook, Parsed, OnDisk, env
  <1> QED BY <1>1, <1>3, WriteKeeps

LEMMA UpsertRefreshSound ==
  ASSUME Sound, NEW p \in Procs, UpsertRefresh(p)
  PROVE  Sound'
  <1> DEFINE f == op[p].file
             r == [locs[f] EXCEPT !.stamp = op[p].stamp]
  <1>1. op[p].stamp \in Nat /\ op[p].stamp <= changes
    BY OpAtHand DEF Sound, SoundOp, Op
  <1>2. CASE f \in Located
    <2>1. f \in Paths /\ SoundLoc(locs[f]) /\ locs[f] \in Loc
      BY <1>2 DEF Located, Sound, SoundDb, SoundLoc
    <2>2. locs' = [locs EXCEPT ![f] = r]
      BY <1>2, <2>1 DEF UpsertRefresh, Sound, SoundDb
    <2>3. SoundLoc(r) /\ r \in Loc
      BY <1>1, <2>1 DEF SoundLoc, Loc
    <2> HIDE DEF r
    <2>4. /\ locs' \in [Paths -> Loc \cup {NoRow}]
          /\ \A g \in Paths : locs'[g] # NoRow => SoundLoc(locs'[g])
      BY <2>1, <2>2, <2>3 DEF Located, Sound, SoundDb
    <2> QED BY <2>4, LocsWrittenKeep DEF UpsertRefresh
  <1>3. CASE f \notin Located
    BY <1>3, LocsWrittenKeep DEF UpsertRefresh, Sound, SoundDb, Located
  <1> QED BY <1>2, <1>3

LEMMA UpsertAttachSound ==
  ASSUME Sound, NEW p \in Procs, UpsertAttach(p)
  PROVE  Sound'
  <1> DEFINE f == op[p].file
             r == [book |-> op[p].book, stamp |-> op[p].stamp]
  <1>1. f \in Paths /\ SoundOp(op[p]) /\ op[p] \in Op /\ op[p].book \in Ids
    BY OpAtHand DEF Sound, UpsertAttach, At, HasFile, HasBook
  <1>2. SoundLoc(r) /\ r \in Loc
    BY <1>1 DEF SoundLoc, Loc, SoundOp, Op
  <1>3. CASE f \in Located
    BY <1>3, LocsWrittenKeep DEF UpsertAttach, Sound, SoundDb, Located
  <1>4. CASE f \notin Located
    <2>1. locs' = [locs EXCEPT ![f] = r]
      BY <1>4 DEF UpsertAttach
    <2> HIDE DEF r
    <2>2. /\ locs' \in [Paths -> Loc \cup {NoRow}]
          /\ \A g \in Paths : locs'[g] # NoRow => SoundLoc(locs'[g])
      BY <1>1, <1>2, <2>1 DEF Located, Sound, SoundDb
    <2> QED BY <2>2, LocsWrittenKeep DEF UpsertAttach
  <1> QED BY <1>3, <1>4

LEMMA DeleteLocationSound ==
  ASSUME Sound, NEW p \in Procs, DeleteLocation(p)
  PROVE  Sound'
  <1>1. /\ locs' \in [Paths -> Loc \cup {NoRow}]
        /\ \A g \in Paths : locs'[g] # NoRow => SoundLoc(locs'[g])
    BY DEF DeleteLocation, Located, Sound, SoundDb
  <1> QED BY <1>1, LocsWrittenKeep DEF DeleteLocation

LEMMA UpsertUpdateSound ==
  ASSUME Sound, NEW p \in Procs, UpsertUpdate(p)
  PROVE  Sound'
  <1> DEFINE b == op[p].book
             f == op[p].file
             g == <<f[1], books[b].file[2]>>
             r == [file |-> g, stamp |-> op[p].stamp, title |-> op[p].title,
                   own |-> books[b].file = f]
  <1>1. b \in Ids /\ f \in Paths /\ SoundOp(op[p]) /\ op[p] \in Op /\ op[p].pc = "update"
    BY OpAtHand DEF Sound, UpsertUpdate, At, HasFile, HasBook
  <1>2. CASE b \in Rows /\ BookAt(g) \subseteq {b}
    <2>1. b < nextId /\ books[b] \in Book
      BY <1>2 DEF Sound, SoundDb, SoundBook
    <2>2. books[b].file \in Paths
      BY <2>1 DEF Book
    <2>3. g \in Paths /\ (books[b].file = f => g = f)
      BY <1>1, <2>2, PathIsPair DEF Paths
    <2> HIDE DEF g
    <2>4. SoundBook(r)
      BY <1>1, <2>3 DEF SoundBook, Book, SoundOp, Op, Parsed
    <2>5. books' = [books EXCEPT ![b] = r]
      BY <1>2 DEF UpsertUpdate, g
    <2>6. nextId' \in 1 .. MaxBooks + 1 /\ nextId <= nextId' /\ b < nextId'
      BY <2>1, IndexAssumption DEF UpsertUpdate, Sound, SoundDb
    <2> HIDE DEF r
    <2> QED BY <1>1, <2>4, <2>5, <2>6, BookWrittenKeeps DEF UpsertUpdate
  <1>3. CASE ~ (b \in Rows /\ BookAt(g) \subseteq {b})
    BY <1>3, ReturnKeeps DEF UpsertUpdate, db
  <1> QED BY <1>2, <1>3

LEMMA UpsertInsertSound ==
  ASSUME Sound, NEW p \in Procs, UpsertInsert(p)
  PROVE  Sound'
  <1> DEFINE f == op[p].file
             r == [file |-> f, stamp |-> op[p].stamp, title |-> op[p].title, own |-> TRUE]
  <1>1. f \in Paths /\ SoundOp(op[p]) /\ op[p] \in Op /\ op[p].pc = "insert"
    BY OpAtHand DEF Sound, UpsertInsert, At, HasFile
  <1>2. CASE BookAt(f) = {}
    <2>1. nextId \in Ids /\ nextId' = nextId + 1 /\ books' = [books EXCEPT ![nextId] = r]
      BY <1>2 DEF UpsertInsert
    <2>2. SoundBook(r)
      BY <1>1 DEF SoundBook, Book, SoundOp, Op, Parsed
    <2>3. nextId' \in 1 .. MaxBooks + 1 /\ nextId <= nextId' /\ nextId < nextId'
      BY <2>1, IndexAssumption DEF Ids
    <2> HIDE DEF r
    <2> QED BY <2>1, <2>2, <2>3, BookWrittenKeeps DEF UpsertInsert
  <1>3. CASE BookAt(f) # {}
    BY <1>3, ReturnKeeps DEF UpsertInsert, db
  <1> QED BY <1>2, <1>3

LEMMA UpsertSound ==
  ASSUME Sound, NEW p \in Procs, Upsert(p)
  PROVE  Sound'
  BY UpsertLocationSound, UpsertRefreshSound, UpsertLookBookSound, UpsertUpdateSound,
     UpsertFindSound, UpsertAttachSound, UpsertInsertSound DEF Upsert

LEMMA RemoveBookSound ==
  ASSUME Sound, NEW p \in Procs, RemoveBook(p)
  PROVE  Sound'
  <1>1. op[p].book \in Ids /\ op[p].book < nextId
    BY OpAtHand DEF Sound, RemoveBook, At, HasBook, SoundOp
  <1>2. nextId' \in 1 .. MaxBooks + 1 /\ nextId <= nextId' /\ op[p].book < nextId'
    BY <1>1, IndexAssumption DEF RemoveBook, Sound, SoundDb
  <1> QED BY <1>1, <1>2, BookWrittenKeeps DEF RemoveBook

LEMMA PromoteSound ==
  ASSUME Sound, NEW p \in Procs, Promote(p)
  PROVE  Sound'
  <1> DEFINE b == op[p].book
             f == op[p].file
             r == [books[b] EXCEPT !.file = f, !.stamp = op[p].stamp, !.own = FALSE]
  <1>1. b \in Ids /\ f \in Paths /\ SoundOp(op[p]) /\ op[p] \in Op
    BY OpAtHand DEF Sound, Promote, At, HasFile, HasBook
  <1>2. scan' \in {scan, NoScan} /\ nextId <= nextId'
    BY IndexAssumption DEF Promote, Sound, SoundDb
  <1>3. CASE UNCHANGED <<books, locs>>
    <2>1. SoundDb'
      BY <1>3 DEF Promote, Sound, SoundDb, SoundBook, SoundLoc, Rows, Located, Parsed, OnDisk, env
    <2> QED BY <1>2, <2>1, WriteKeeps DEF Promote
  <1>4. CASE /\ books' = IF b \in Rows
                         THEN [books EXCEPT ![b].file = f, ![b].stamp = op[p].stamp,
                                            ![b].own = FALSE]
                         ELSE books
             /\ locs' = [locs EXCEPT ![f] = NoRow]
    <2>1. /\ locs' \in [Paths -> Loc \cup {NoRow}]
          /\ \A g \in Located' : g \in Located /\ locs'[g] = locs[g]
      BY <1>1, <1>4 DEF Sound, SoundDb, Located
    <2>2. /\ books' \in [Ids -> Book \cup {NoRow}]
          /\ \A a \in Rows' : a < nextId /\ SoundBook(books'[a])
      <3>1. CASE b \in Rows
        <4>1. SoundBook(books[b]) /\ books[b] \in Book
          BY <3>1 DEF Sound, SoundDb, SoundBook
        <4>2. r \in Book /\ SoundBook(r)
          BY <1>1, <4>1 DEF SoundBook, Book, SoundOp, Op
        <4>3. books' = [books EXCEPT ![b] = r]
          BY <1>1, <1>4, <3>1, <4>1 DEF Sound, SoundDb, Book
        <4> HIDE DEF r
        <4> QED BY <1>1, <3>1, <4>2, <4>3 DEF Rows, Sound, SoundDb
      <3>2. CASE b \notin Rows
        BY <1>4, <3>2 DEF Sound, SoundDb, Rows
      <3> QED BY <3>1, <3>2
    <2>3. SoundDb'
      BY <2>1, <2>2 DEF Promote, Sound, SoundDb, SoundBook, SoundLoc, Parsed, OnDisk, env
    <2> QED BY <1>2, <2>3, WriteKeeps DEF Promote
  <1> QED BY <1>3, <1>4 DEF Promote

LEMMA RemoveSound ==
  ASSUME Sound, NEW p \in Procs, Remove(p)
  PROVE  Sound'
  BY DeleteLookupSound, DeleteLocationSound, RemoveReadLocsSound, RemoveBookSound, PromoteSound
     DEF Remove

LEMMA MergeBooksSound ==
  ASSUME Sound, NEW p \in Procs, MergeBooks(p)
  PROVE  Sound'
  <1> DEFINE keep == op[p].book
             drop == op[p].drop
  <1>1. keep \in Ids /\ drop \in Ids /\ keep < nextId
    BY OpAtHand DEF Sound, MergeBooks, At, HasBook, SoundOp
  <1>2. CASE drop \notin Rows
    BY <1>2, ReturnKeeps DEF MergeBooks, db
  <1>3. CASE drop \in Rows
    <2>1. books[drop] \in Book /\ books[drop].stamp <= changes /\ books[drop].stamp \in Nat
      BY <1>3 DEF Sound, SoundDb, SoundBook, Book
    <2>2. /\ locs' \in [Paths -> Loc \cup {NoRow}]
          /\ \A f \in Located' : SoundLoc(locs'[f])
      <3>1. ASSUME NEW f \in Paths
            PROVE  locs'[f] = NoRow \/ (locs'[f] \in Loc /\ SoundLoc(locs'[f]))
        <4> DEFINE new == [book |-> keep, stamp |-> books[drop].stamp]
                   moved == [locs[f] EXCEPT !.book = keep]
        <4>1. new \in Loc /\ SoundLoc(new)
          BY <1>1, <2>1 DEF SoundLoc, Loc
        <4>2. f \in LocsOf(drop) => moved \in Loc /\ SoundLoc(moved)
          BY <1>1 DEF LocsOf, Located, Sound, SoundDb, SoundLoc, Loc
        <4>3. locs[f] = NoRow \/ (locs[f] \in Loc /\ SoundLoc(locs[f]))
          BY DEF Located, Sound, SoundDb, SoundLoc
        <4>4. \/ locs'[f] = new \/ (f \in LocsOf(drop) /\ locs'[f] = moved)
              \/ locs'[f] = locs[f]
          BY <1>3 DEF MergeBooks, MergeLocs
        <4> HIDE DEF new, moved
        <4> QED BY <4>1, <4>2, <4>3, <4>4
      <3>2. locs' = [f \in Paths |-> locs'[f]]
        BY <1>3 DEF MergeBooks, MergeLocs
      <3> QED BY <3>1, <3>2 DEF Located
    <2>3. /\ books' \in [Ids -> Book \cup {NoRow}]
          /\ \A a \in Rows' : a \in Rows /\ books'[a] = books[a]
      BY <1>1, <1>3 DEF MergeBooks, Sound, SoundDb, Rows
    <2>4. shelf' \subseteq Shelves \X Ids
      <3>1. \A x \in shelf : x[1] \in Shelves /\ x[2] \in Ids
        BY DEF Sound, SoundDb
      <3>2. shelf' = MergeShelf(keep, drop)
        BY <1>3 DEF MergeBooks
      <3> QED BY <1>1, <3>1, <3>2 DEF MergeShelf
    <2>5. SoundDb'
      BY <2>2, <2>3, <2>4 DEF MergeBooks, Sound, SoundDb, SoundBook, SoundLoc, Parsed, OnDisk, env
    <2> QED BY <2>5, WriteKeeps, IndexAssumption DEF MergeBooks, Sound, SoundDb
  <1> QED BY <1>2, <1>3

-----------------------------------------------------------------------------
(* The files and the watcher.                                              *)

(* The tables, operations and scan while only the files or timers change.  *)
LEMMA NotifyKeeps ==
  ASSUME Sound, NEW f \in Paths, NEW k \in Kinds, Notify(f, k)
  PROVE  /\ timer' \in [Paths -> Kinds \cup {"none"}] /\ loose' \subseteq Paths \X Kinds
         /\ firing' \in [Callbacks -> Paths \cup {NoRow}]
  BY DEF Notify, Sound, SoundEnv

LEMMA DisturbKeeps ==
  ASSUME SoundScan, Disturb, UNCHANGED nextId
  PROVE  SoundScan'
  BY DEF SoundScan, Disturb, Scans, SoundGroup

(* A write leaves a stamp that no version had, or counts as like one.      *)
LEMMA FileKeeps ==
  ASSUME Sound, changes < MaxChanges, changes' = changes + 1, likes' \in 0 .. MaxLike,
         NEW f \in Paths, NEW r,
         r = NoRow \/ (r \in File /\ r.stamp <= changes + 1 /\ (r.like \/ r.stamp = changes + 1)),
         disk' = [disk EXCEPT ![f] = r],
         NEW k \in Kinds, Notify(f, k), Disturb, UNCHANGED <<db, op, ctl>>
  PROVE  Sound'
  <1>1. changes \in Nat /\ changes' \in 0 .. MaxChanges
    BY IndexAssumption DEF Sound, SoundEnv
  <1>2. /\ disk' \in [Paths -> File \cup {NoRow}] /\ disk'[f] = r
        /\ \A g \in Paths \ {f} : disk'[g] = disk[g]
    BY DEF Sound, SoundEnv
  <1>3. \A g \in OnDisk' : disk'[g].stamp <= changes'
    <2> SUFFICES ASSUME NEW g \in OnDisk' PROVE disk'[g].stamp <= changes'
      OBVIOUS
    <2>1. CASE g = f
      BY <1>1, <1>2, <2>1 DEF OnDisk
    <2>2. CASE g # f
      <3>1. g \in OnDisk /\ disk'[g] = disk[g]
        BY <1>2, <2>2 DEF OnDisk
      <3>2. disk[g].stamp \in Nat /\ disk[g].stamp <= changes
        BY <3>1 DEF Sound, SoundEnv, OnDisk, File
      <3> QED BY <1>1, <3>1, <3>2
    <2> QED BY <2>1, <2>2
  <1>4. SoundEnv'
    BY <1>1, <1>2, <1>3, NotifyKeeps DEF SoundEnv
  <1>5. ASSUME NEW g \in Paths, NEW s \in Nat, s <= changes, NEW t, Parsed(g, s, t)
        PROVE  Parsed(g, s, t)'
    <2>1. CASE g = f
      BY <1>1, <1>2, <1>5, <2>1 DEF Parsed, OnDisk
    <2>2. CASE g # f
      BY <1>2, <1>5, <2>2 DEF Parsed, OnDisk
    <2> QED BY <2>1, <2>2
  <1>6. ASSUME NEW o, SoundOp(o) PROVE SoundOp(o)'
    BY <1>1, <1>5, <1>6 DEF SoundOp, Op, HasFile, db
  <1>7. SoundOps'
    BY <1>6 DEF Sound, SoundOps
  <1>8. ASSUME NEW x, SoundBook(x) PROVE SoundBook(x)'
    BY <1>1, <1>5, <1>8 DEF SoundBook, Book
  <1>9. ASSUME NEW x, SoundLoc(x) PROVE SoundLoc(x)'
    BY <1>1, <1>9 DEF SoundLoc, Loc, db
  <1>10. SoundDb'
    BY <1>8, <1>9 DEF Sound, SoundDb, db, Rows, Located
  <1>11. SoundScan' /\ SoundCtl'
    BY DisturbKeeps DEF Sound, SoundCtl, ctl, db
  <1> QED BY <1>4, <1>7, <1>10, <1>11 DEF Sound

LEMMA FileSound ==
  ASSUME Sound, NEW f \in Paths,
         (\E t \in Contents : WriteFile(f, t)) \/ RemoveFile(f)
  PROVE  Sound'
  <1>1. ASSUME NEW t \in Contents, WriteFile(f, t) PROVE Sound'
    <2>1. changes \in Nat /\ likes \in 0 .. MaxLike /\ MaxLike \in Nat
      BY IndexAssumption DEF Sound, SoundEnv
    <2>2. likes' \in 0 .. MaxLike
      BY <1>1, <2>1 DEF WriteFile
    <2>3. ASSUME NEW n \in 1 .. changes + 1, NEW k \in BOOLEAN, k \/ n = changes + 1,
                 disk' = [disk EXCEPT ![f] = [stamp |-> n, title |-> t, like |-> k]]
          PROVE  Sound'
      <3> DEFINE r == [stamp |-> n, title |-> t, like |-> k]
      <3>1. r \in File /\ r.stamp <= changes + 1 /\ (r.like \/ r.stamp = changes + 1)
        BY <2>1, <2>3 DEF File
      <3>2. disk' = [disk EXCEPT ![f] = r]
        BY <2>3
      <3> HIDE DEF r
      <3> QED BY <1>1, <2>2, <3>1, <3>2, FileKeeps DEF WriteFile, Kinds
    <2>4. changes + 1 \in 1 .. changes + 1 /\ 1 .. changes \subseteq 1 .. changes + 1
      BY <2>1
    <2>5. CASE disk' = [disk EXCEPT ![f] = [stamp |-> changes + 1, title |-> t, like |-> FALSE]]
      BY <2>3, <2>4, <2>5
    <2>6. ASSUME NEW n \in 1 .. changes,
                 disk' = [disk EXCEPT ![f] = [stamp |-> n, title |-> t, like |-> TRUE]]
          PROVE  Sound'
      BY <2>3, <2>4, <2>6
    <2> QED BY <1>1, <2>5, <2>6 DEF WriteFile
  <1>2. CASE RemoveFile(f)
    <2>1. likes' \in 0 .. MaxLike
      BY <1>2 DEF RemoveFile, Sound, SoundEnv
    <2> QED BY <1>2, <2>1, FileKeeps DEF RemoveFile, Kinds
  <1> QED BY <1>1, <1>2

LEMMA FireSound ==
  ASSUME Sound, NEW c \in Callbacks, NEW f \in Paths, NEW k \in Kinds, Fire(c, f, k)
  PROVE  Sound'
  <1> DEFINE pc == IF k = "upsert" THEN "stat" ELSE "lookGone"
             r == [Idle EXCEPT !.pc = pc, !.file = f]
  <1>1. /\ timer' \in [Paths -> Kinds \cup {"none"}] /\ loose' \subseteq Paths \X Kinds
        /\ firing' \in [Callbacks -> Paths \cup {NoRow}]
    BY DEF Fire, Sound, SoundEnv
  <1>2. SoundEnv'
    BY <1>1 DEF Fire, Sound, SoundEnv, OnDisk
  <1>3. pc \in {"stat", "lookGone"}
    OBVIOUS
  <1>4. c \in Procs /\ Step(c, r)
    BY DEF Fire, Procs
  <1> HIDE DEF pc
  <1>5. SoundOp(r)
    BY <1>3, IdleIsSound DEF Sound, SoundOp, Idle, Op, HasFile, HasBook
  <1> HIDE DEF r
  <1>6. nextId' \in Nat /\ nextId <= nextId'
    BY IndexAssumption DEF Fire, db, Sound, SoundDb
  <1>7. SoundOps'
    BY <1>4, <1>5, <1>6, OpsMove DEF Sound, Fire
  <1>8. SoundDb'
    BY DEF Fire, db, Sound, SoundDb, SoundBook, SoundLoc, Rows, Located, Parsed, OnDisk
  <1>9. SoundScan' /\ SoundCtl'
    BY DisturbKeeps DEF Fire, Sound, SoundCtl, ctl, db
  <1> QED BY <1>2, <1>7, <1>8, <1>9 DEF Sound

LEMMA FireEndSound ==
  ASSUME Sound, NEW c \in Callbacks, FireEnd(c)
  PROVE  Sound'
  <1> DEFINE f == firing[c]
  <1>1. f \in Paths
    BY DEF FireEnd, Sound, SoundEnv
  <1>2. /\ timer' \in [Paths -> Kinds \cup {"none"}]
        /\ firing' \in [Callbacks -> Paths \cup {NoRow}]
    BY DEF FireEnd, Sound, SoundEnv
  <1>3. loose' \subseteq Paths \X Kinds
    BY <1>1 DEF FireEnd, Sound, SoundEnv
  <1>4. SoundEnv'
    BY <1>2, <1>3 DEF FireEnd, Sound, SoundEnv, OnDisk
  <1>5. SoundDb' /\ SoundOps'
    BY DEF FireEnd, db, Sound, SoundDb, SoundOps, SoundOp, SoundBook, SoundLoc, Rows, Located,
           Parsed, OnDisk
  <1>6. SoundScan' /\ SoundCtl'
    BY DEF FireEnd, Sound, SoundScan, SoundGroup, SoundCtl, ctl, db
  <1> QED BY <1>4, <1>5, <1>6 DEF Sound

-----------------------------------------------------------------------------
(* The enrichment queue, the readers, requests and restarts.               *)

LEMMA ApplyEnrichmentSound ==
  ASSUME Sound, NEW b \in Ids, NEW i \in ISBNs, ApplyEnrichment(b, i)
  PROVE  Sound'
  <1> DEFINE r == [Idle EXCEPT !.pc = "pickIsbn", !.book = b]
  <1>1. b < nextId
    BY DEF ApplyEnrichment, Sound, SoundDb
  <1>2. SoundOp(r)
    BY <1>1, IdleIsSound DEF Sound, SoundOp, Idle, Op, HasFile, HasBook
  <1>3. Enricher \in Procs /\ Step(Enricher, r)
    BY DEF Procs, ApplyEnrichment
  <1> HIDE DEF r
  <1>4. nextId' \in Nat /\ nextId <= nextId'
    BY IndexAssumption DEF ApplyEnrichment, Sound, SoundDb
  <1>5. SoundOps'
    BY <1>2, <1>3, <1>4, OpsMove DEF Sound, ApplyEnrichment, env
  <1>6. /\ enr' \in [Ids -> ISBNs \cup {NoRow}]
        /\ \A a \in Ids : enr'[a] # NoRow => a < nextId
    BY <1>1 DEF ApplyEnrichment, Sound, SoundDb
  <1>7. SoundDb'
    BY <1>6 DEF ApplyEnrichment, env, Sound, SoundDb, SoundBook, SoundLoc, Rows, Located, Parsed,
                OnDisk
  <1>8. SoundEnv' /\ SoundScan' /\ SoundCtl'
    BY DisturbKeeps DEF ApplyEnrichment, env, ctl, Sound, SoundEnv, SoundCtl, OnDisk
  <1> QED BY <1>5, <1>7, <1>8 DEF Sound

(* A step that leaves the operations and ids alone.                        *)
LEMMA OthersKeep ==
  ASSUME Sound, UNCHANGED <<env, nextId, issued, op>>, SoundDb', SoundScan', SoundCtl'
  PROVE  Sound'
  <1>1. SoundEnv' /\ SoundOps'
    BY DEF Sound, env, SoundEnv, SoundOps, SoundOp, Parsed, OnDisk
  <1> QED BY <1>1 DEF Sound

LEMMA TablesAlone ==
  ASSUME Sound, UNCHANGED <<env, db>>
  PROVE  SoundDb'
  BY DEF env, db, Sound, SoundDb, SoundBook, SoundLoc, Rows, Located, Parsed, OnDisk

LEMMA ScanAlone ==
  ASSUME Sound, UNCHANGED <<nextId, scan>>
  PROVE  SoundScan'
  BY DEF Sound, SoundScan, SoundGroup

LEMMA AddBookToShelfSound ==
  ASSUME Sound, NEW s \in Shelves, NEW b \in Ids, AddBookToShelf(s, b)
  PROVE  Sound'
  <1>1. shelf' \subseteq Shelves \X Ids
    BY DEF AddBookToShelf, Sound, SoundDb
  <1>2. SoundDb'
    BY <1>1 DEF AddBookToShelf, env, Sound, SoundDb, SoundBook, SoundLoc, Rows, Located, Parsed,
                OnDisk
  <1>3. SoundCtl'
    BY DEF AddBookToShelf, Sound, SoundCtl, ctl
  <1> QED BY <1>2, <1>3, OthersKeep, ScanAlone DEF AddBookToShelf

LEMMA RequestScanSound ==
  ASSUME Sound, RequestScan \/ ClearEnqueue
  PROVE  Sound'
  <1>1. SoundCtl'
    BY DEF RequestScan, ClearEnqueue, Sound, SoundCtl
  <1> QED BY <1>1, OthersKeep, TablesAlone, ScanAlone DEF RequestScan, ClearEnqueue, db

LEMMA ClearLibrarySound ==
  ASSUME Sound, ClearLibrary
  PROVE  Sound'
  <1>1. SoundDb'
    BY DEF ClearLibrary, Sound, SoundDb, Rows, Located
  <1>2. SoundScan'
    BY DisturbKeeps DEF ClearLibrary, Sound
  <1>3. SoundCtl'
    BY IndexAssumption DEF ClearLibrary, Sound, SoundCtl
  <1> QED BY <1>1, <1>2, <1>3, OthersKeep DEF ClearLibrary

LEMMA CrashSound ==
  ASSUME Sound, Crash
  PROVE  Sound'
  <1>1. SoundEnv'
    BY DEF Crash, Sound, SoundEnv, OnDisk
  <1>2. SoundDb'
    BY DEF Crash, db, Sound, SoundDb, SoundBook, SoundLoc, Rows, Located, Parsed, OnDisk
  <1>3. SoundOp(Idle)'
    <2>1. SoundOp(Idle)
      BY IdleIsSound DEF Sound
    <2>2. nextId' \in Nat /\ nextId <= nextId'
      BY IndexAssumption DEF Crash, db, Sound, SoundDb
    <2> QED BY <2>1, <2>2, OpStaysSound DEF Sound, Crash
  <1>4. SoundOps'
    BY <1>3 DEF Crash, SoundOps, SoundOp, Idle
  <1>5. SoundScan'
    BY NoScanIsSound DEF Crash, SoundScan, NoScan
  <1>6. SoundCtl'
    <2>1. used' \in [scans : 0 .. MaxScans, clears : 0 .. MaxClears, crashes : 0 .. MaxCrashes]
      BY IndexAssumption DEF Crash, Sound, SoundCtl
    <2>2. owed' \in BOOLEAN /\ queued' \in BOOLEAN /\ clear' \in BOOLEAN
      BY DEF Crash, Sound, SoundCtl
    <2> QED BY <2>1, <2>2 DEF SoundCtl
  <1> QED BY <1>1, <1>2, <1>4, <1>5, <1>6 DEF Sound

-----------------------------------------------------------------------------
(* The scan.                                                               *)

(* A step that only moves the scan on.                                     *)
LEMMA ScanMoves ==
  ASSUME Sound, SoundScan', UNCHANGED <<env, db, op, ctl>>
  PROVE  Sound'
  <1>1. SoundCtl'
    BY DEF Sound, SoundCtl, ctl
  <1> QED BY <1>1, OthersKeep, TablesAlone DEF db

(* A step that starts the scan's work on one path or row.                  *)
LEMMA ScanTakesUp ==
  ASSUME Sound, SoundScan', NEW r, SoundOp(r), Step(Scanner, r), UNCHANGED <<env, db, ctl>>
  PROVE  Sound'
  <1>1. Scanner \in Procs
    BY DEF Procs
  <1>2. nextId' \in Nat /\ nextId <= nextId'
    BY IndexAssumption DEF db, Sound, SoundDb
  <1>3. SoundOps'
    BY <1>1, <1>2, OpsMove DEF Sound, env
  <1>4. SoundEnv' /\ SoundDb' /\ SoundCtl'
    BY TablesAlone DEF Sound, env, ctl, SoundEnv, SoundCtl, OnDisk
  <1> QED BY <1>3, <1>4 DEF Sound

LEMMA ScanStartSound ==
  ASSUME Sound, ScanStart
  PROVE  Sound'
  <1>1. SoundScan'
    BY NoScanIsSound DEF ScanStart, SoundScan, NoScan, Scans
  <1>2. SoundCtl'
    <2>1. used' \in [scans : 0 .. MaxScans, clears : 0 .. MaxClears, crashes : 0 .. MaxCrashes]
      BY IndexAssumption DEF ScanStart, Sound, SoundCtl
    <2>2. owed' \in BOOLEAN /\ queued' \in BOOLEAN /\ clear' \in BOOLEAN
      BY DEF ScanStart, Sound, SoundCtl
    <2> QED BY <2>1, <2>2 DEF SoundCtl
  <1> QED BY <1>1, <1>2, OthersKeep, TablesAlone DEF ScanStart, db

LEMMA ScanListsSound ==
  ASSUME Sound, ScanList \/ ScanListStale \/ ScanListLocations \/ ScanFinish
  PROVE  Sound'
  <1>1. CASE ScanList
    <2> DEFINE r == First(scan.roots)
               L == {f \in OnDisk : f[1] = r}
    <2>1. L \subseteq Paths
      BY DEF OnDisk
    <2>2. scan' = [scan EXCEPT !.roots = @ \ {r}, !.todo = L, !.seen = @ \cup L]
      BY <1>1 DEF ScanList
    <2> HIDE DEF L, r
    <2>3. SoundScan'
      BY <1>1, <2>1, <2>2 DEF ScanList, db, Sound, SoundScan, SoundGroup, Scans
    <2> QED BY <1>1, <2>3, ScanMoves DEF ScanList
  <1>2. CASE ScanListStale
    <2>1. \A b \in Rows : b \in Ids /\ b < nextId
      BY DEF Rows, Sound, SoundDb
    <2>2. SoundScan'
      BY <1>2, <2>1 DEF ScanListStale, db, Sound, SoundScan, SoundGroup, Scans
    <2> QED BY <1>2, <2>2, ScanMoves DEF ScanListStale
  <1>3. CASE ScanListLocations
    <2>1. SoundScan'
      BY <1>3 DEF ScanListLocations, db, Sound, SoundScan, SoundGroup, Scans, Located
    <2> QED BY <1>3, <2>1, ScanMoves DEF ScanListLocations
  <1>4. CASE ScanFinish
    <2>1. SoundScan'
      BY <1>4, NoScanIsSound DEF ScanFinish, SoundScan, NoScan
    <2> QED BY <1>4, <2>1, ScanMoves DEF ScanFinish
  <1> QED BY <1>1, <1>2, <1>3, <1>4

LEMMA ScanVisitSound ==
  ASSUME Sound, ScanVisit
  PROVE  Sound'
  <1> DEFINE f == FirstIn(scan.todo)
             r == [Idle EXCEPT !.pc = "stat", !.file = f]
  <1>1. scan.todo \in SUBSET Paths /\ scan.todo # {}
    BY DEF ScanVisit, Sound, SoundScan, Scans
  <1>2. f \in Paths
    BY <1>1, FirstInIsIn
  <1>3. Step(Scanner, r) /\ scan' = [scan EXCEPT !.todo = @ \ {f}]
    BY DEF ScanVisit
  <1> HIDE DEF f
  <1>4. SoundScan'
    BY <1>3 DEF ScanVisit, db, Sound, SoundScan, SoundGroup, Scans
  <1>5. SoundOp(r)
    BY <1>2, IdleIsSound DEF Sound, SoundOp, Idle, Op, HasFile, HasBook
  <1> HIDE DEF r
  <1> QED BY <1>3, <1>4, <1>5, ScanTakesUp DEF ScanVisit

LEMMA ScanPruneSound ==
  ASSUME Sound, NEW b \in Ids, ScanPrune(b)
  PROVE  Sound'
  <1> DEFINE r == [Idle EXCEPT !.pc = "locs", !.book = b]
  <1>1. b < nextId
    BY DEF ScanPrune, Sound, SoundScan
  <1>2. Step(Scanner, r)
    BY DEF ScanPrune
  <1>3. SoundScan'
    BY DEF ScanPrune, db, Sound, SoundScan, SoundGroup, Scans
  <1>4. SoundOp(r)
    BY <1>1, IdleIsSound DEF Sound, SoundOp, Idle, Op, HasFile, HasBook
  <1> HIDE DEF r
  <1> QED BY <1>2, <1>3, <1>4, ScanTakesUp DEF ScanPrune

LEMMA ScanPruneLocationSound ==
  ASSUME Sound, NEW f \in Paths, ScanPruneLocation(f)
  PROVE  Sound'
  <1>1. locs' \in [Paths -> Loc \cup {NoRow}] /\ \A g \in Located' : SoundLoc(locs'[g])
    BY DEF ScanPruneLocation, Sound, SoundDb, Located
  <1>2. SoundDb'
    BY <1>1 DEF ScanPruneLocation, env, Sound, SoundDb, SoundBook, SoundLoc, Rows, Parsed, OnDisk
  <1>3. SoundScan' /\ SoundCtl'
    BY DEF ScanPruneLocation, ctl, Sound, SoundScan, SoundGroup, Scans, SoundCtl
  <1> QED BY <1>2, <1>3, OthersKeep DEF ScanPruneLocation

LEMMA ScanListTitlesSound ==
  ASSUME Sound, ScanListTitles
  PROVE  Sound'
  <1> DEFINE dup == {t \in Titles : Cardinality(SameTitle(t)) > 1}
             G(t) == [keep |-> First(SameTitle(t)),
                      rest |-> SameTitle(t) \ {First(SameTitle(t))}]
  <1>1. ASSUME NEW t \in dup PROVE SoundGroup(G(t))
    <2>1. PICK a \in SameTitle(t), b \in SameTitle(t) : a # b
      BY TwinsAreTwo
    <2>2. SameTitle(t) \subseteq Ids /\ \A c \in SameTitle(t) : c < nextId
      BY DEF SameTitle, Rows, Sound, SoundDb
    <2>3. SameTitle(t) \in SUBSET Nat /\ SameTitle(t) # {}
      BY <2>1, <2>2 DEF Ids
    <2>4. First(SameTitle(t)) \in SameTitle(t)
      BY <2>3, FirstIsLeast
    <2> QED BY <2>1, <2>2, <2>4 DEF SoundGroup, Group
  <1>2. scan' = [scan EXCEPT !.phase = "merge", !.groups = {G(t) : t \in dup}]
    BY DEF ScanListTitles
  <1> HIDE DEF G, dup
  <1>3. \A g \in {G(t) : t \in dup} : SoundGroup(g) /\ g \in Group
    BY <1>1 DEF SoundGroup
  <1>4. SoundScan'
    <2>1. /\ scan' \in Scans /\ scan'.stale = scan.stale
          /\ scan'.groups = {G(t) : t \in dup}
      BY <1>2, <1>3 DEF Sound, SoundScan, Scans
    <2>2. nextId' = nextId
      BY DEF ScanListTitles, db
    <2> QED BY <1>3, <2>1, <2>2 DEF Sound, SoundScan, SoundGroup
  <1> QED BY <1>4, ScanMoves DEF ScanListTitles

(* What ScanPick leaves of a group.                                        *)
LEMMA GroupShrinks ==
  ASSUME Sound, NEW g \in scan.groups
  PROVE  /\ g.keep \in Ids /\ g.keep < nextId
         /\ First(g.rest) \in g.rest
         /\ First(g.rest) \in Ids /\ First(g.rest) < nextId /\ First(g.rest) # g.keep
         /\ \A k \in {g.keep, First(g.rest)} :
              g.rest # {First(g.rest)} =>
                SoundGroup([keep |-> k, rest |-> g.rest \ {First(g.rest)}])
  <1>1. SoundGroup(g) /\ g \in Group /\ g.rest \subseteq Ids /\ g.rest # {}
    BY DEF Sound, SoundScan, SoundGroup, Group
  <1>2. First(g.rest) \in g.rest
    BY <1>1, FirstIsLeast DEF Ids
  <1> QED BY <1>1, <1>2 DEF SoundGroup, Group

LEMMA ScanPickSound ==
  ASSUME Sound, NEW g \in scan.groups, ScanPick(g)
  PROVE  Sound'
  <1> DEFINE b == First(g.rest)
             m == Picked(g.keep, b)
             left == IF g.rest = {b} THEN {} ELSE {[keep |-> m.book, rest |-> g.rest \ {b}]}
  <1>1. SoundOp(m) /\ m.book \in {g.keep, b}
    BY GroupShrinks, PickedIsSound DEF Sound
  <1>2. \A h \in left : SoundGroup(h)
    BY <1>1, GroupShrinks
  <1>3. CASE {g.keep, b} \subseteq Rows
    <2>1. Step(Scanner, m) /\ scan' = [scan EXCEPT !.groups = (@ \ {g}) \cup left]
      BY <1>3 DEF ScanPick
    <2> HIDE DEF m, left
    <2>2. SoundScan'
      BY <1>2, <2>1 DEF ScanPick, db, Sound, SoundScan, SoundGroup, Scans
    <2> QED BY <1>1, <2>1, <2>2, ScanTakesUp DEF ScanPick
  <1>4. CASE ~ ({g.keep, b} \subseteq Rows)
    <2>1. scan' = NoScan /\ UNCHANGED op
      BY <1>4 DEF ScanPick
    <2>2. SoundScan'
      BY <2>1, NoScanIsSound DEF SoundScan, NoScan
    <2> QED BY <2>1, <2>2, ScanMoves DEF ScanPick
  <1> QED BY <1>3, <1>4

LEMMA ScanSound ==
  ASSUME Sound, ScanSteps
  PROVE  Sound'
  BY ScanStartSound, ScanListsSound, ScanVisitSound, ScanPruneSound, ScanPruneLocationSound,
     ScanListTitlesSound, ScanPickSound DEF ScanSteps

-----------------------------------------------------------------------------
LEMMA InitSound == Init => Sound
  <1> SUFFICES ASSUME Init PROVE Sound
    OBVIOUS
  <1>1. SoundEnv
    BY IndexAssumption DEF Init, SoundEnv, OnDisk
  <1>2. SoundDb
    BY IndexAssumption DEF Init, SoundDb, Rows, Located
  <1>3. SoundOps
    BY <1>1, <1>2, IdleIsSound DEF Init, SoundOps, SoundOp
  <1>4. SoundScan
    BY NoScanIsSound DEF Init, SoundScan, NoScan
  <1>5. SoundCtl
    <2>1. used \in [scans : 0 .. MaxScans, clears : 0 .. MaxClears, crashes : 0 .. MaxCrashes]
      BY IndexAssumption DEF Init
    <2>2. owed \in BOOLEAN /\ queued \in BOOLEAN /\ clear \in BOOLEAN
      BY DEF Init
    <2> QED BY <2>1, <2>2 DEF SoundCtl
  <1> QED BY <1>1, <1>2, <1>3, <1>4, <1>5 DEF Sound

LEMMA StepSound == Sound /\ [Next]_vars => Sound'
  <1> SUFFICES ASSUME Sound, [Next]_vars PROVE Sound'
    OBVIOUS
  <1>1. CASE UNCHANGED vars
    <2>1. UNCHANGED <<env, db, op, scan, ctl>>
      BY <1>1 DEF vars, env, db, ctl
    <2> QED BY <2>1, ScanMoves, ScanAlone DEF db
  <1>2. CASE Next
    <2>1. ASSUME NEW f \in Paths, (\E t \in Contents : WriteFile(f, t)) \/ RemoveFile(f)
          PROVE  Sound'
      BY <2>1, FileSound
    <2>2. ASSUME NEW c \in Callbacks,
                 FireEnd(c) \/ \E f \in Paths, k \in Kinds : Fire(c, f, k)
          PROVE  Sound'
      BY <2>2, FireSound, FireEndSound
    <2>3. ASSUME NEW p \in Procs, Upsert(p) \/ Remove(p) \/ MergeBooks(p)
          PROVE  Sound'
      BY <2>3, UpsertSound, RemoveSound, MergeBooksSound
    <2>4. ASSUME NEW b \in Ids, \/ \E s \in Shelves : AddBookToShelf(s, b)
                                \/ \E i \in ISBNs : ApplyEnrichment(b, i)
          PROVE  Sound'
      BY <2>4, AddBookToShelfSound, ApplyEnrichmentSound
    <2>5. CASE MergeDuplicateISBN \/ ScanSteps
      BY <2>5, MergeDuplicateISBNSound, ScanSound
    <2>6. CASE RequestScan \/ ClearLibrary \/ ClearEnqueue \/ Crash
      BY <2>6, RequestScanSound, ClearLibrarySound, CrashSound
    <2> QED BY <1>2, <2>1, <2>2, <2>3, <2>4, <2>5, <2>6 DEF Next
  <1> QED BY <1>1, <1>2

LEMMA SoundAlways == Spec => []Sound
  BY InitSound, StepSound, PTL DEF Spec

(* Every table, file, timer and operation is of its type.                  *)
THEOREM TypeCorrect == Spec => []TypeOK
  <1>1. Sound => TypeOK
    BY DEF Sound, SoundEnv, SoundDb, SoundOps, SoundScan, SoundCtl, TypeOK
  <1> QED BY <1>1, SoundAlways, PTL

(* The skip of unchanged files is safe, whoever else indexes the file,     *)
(* unless the last write left size and mtime like earlier ones.            *)
THEOREM SkipIsSafe == Spec => []SkippedIsFresh
  <1>1. Sound => SkippedIsFresh
    BY DEF Sound, SoundDb, SoundBook, Parsed, SkippedIsFresh
  <1> QED BY <1>1, SoundAlways, PTL

-----------------------------------------------------------------------------
(* The ids of books.                                                       *)

(* Only an insert adds a row, and it takes the next id.                    *)
LEMMA OnlyNextIdIsBorn ==
  ASSUME Sound, [Next]_vars
  PROVE  Rows' \subseteq Rows \cup {nextId}
  <1>1. ASSUME UNCHANGED books PROVE Rows' \subseteq Rows
    BY <1>1 DEF Rows
  <1>2. ASSUME NEW p \in Procs, UpsertUpdate(p) \/ Promote(p) PROVE Rows' \subseteq Rows
    BY <1>2 DEF UpsertUpdate, Promote, Rows, Sound, SoundDb
  <1>3. ASSUME NEW p \in Procs, UpsertInsert(p) PROVE Rows' \subseteq Rows \cup {nextId}
    BY <1>3 DEF UpsertInsert, Rows, Sound, SoundDb
  <1>4. ASSUME NEW p \in Procs, RemoveBook(p) \/ MergeBooks(p) PROVE Rows' \subseteq Rows
    BY <1>4 DEF RemoveBook, MergeBooks, Rows, Sound, SoundDb
  <1>5. CASE ClearLibrary
    BY <1>5 DEF ClearLibrary, Rows
  <1>6. ASSUME NEW p \in Procs, Upsert(p) \/ Remove(p) \/ MergeBooks(p)
        PROVE  Rows' \subseteq Rows \cup {nextId}
    <2>1. CASE Upsert(p)
      BY <1>1, <1>2, <1>3, <2>1 DEF Upsert, UpsertLocation, UpsertRefresh, UpsertLookBook,
         UpsertFind, UpsertAttach, db
    <2>2. CASE Remove(p) \/ MergeBooks(p)
      BY <1>1, <1>2, <1>4, <1>6, <2>2 DEF Remove, DeleteLookup, DeleteLocation, RemoveReadLocs, db
    <2> QED BY <1>6, <2>1, <2>2
  <1>7. CASE ScanSteps
    BY <1>1, <1>7 DEF ScanSteps, ScanStart, ScanList, ScanVisit, ScanListStale, ScanListLocations,
       ScanListTitles, ScanFinish, ScanPrune, ScanPruneLocation, ScanPick, db
  <1>8. CASE UNCHANGED vars \/ MergeDuplicateISBN \/ RequestScan \/ ClearEnqueue \/ Crash
    BY <1>1, <1>8 DEF vars, MergeDuplicateISBN, RequestScan, ClearEnqueue, Crash, db
  <1>9. ASSUME NEW f \in Paths, (\E t \in Contents : WriteFile(f, t)) \/ RemoveFile(f)
        PROVE  Rows' \subseteq Rows
    BY <1>1, <1>9 DEF WriteFile, RemoveFile, db
  <1>10. ASSUME NEW c \in Callbacks,
                FireEnd(c) \/ \E f \in Paths, k \in Kinds : Fire(c, f, k)
         PROVE  Rows' \subseteq Rows
    BY <1>1, <1>10 DEF FireEnd, Fire, db
  <1>11. ASSUME NEW b \in Ids, \/ \E s \in Shelves : AddBookToShelf(s, b)
                               \/ \E i \in ISBNs : ApplyEnrichment(b, i)
         PROVE  Rows' \subseteq Rows
    BY <1>1, <1>11 DEF AddBookToShelf, ApplyEnrichment
  <1> QED BY <1>5, <1>6, <1>7, <1>8, <1>9, <1>10, <1>11 DEF Next

(* What a deleted book leaves behind never becomes another book's: the     *)
(* next id is greater than every id that a book has had.                   *)
THEOREM OrphansStay == Spec => OrphansStayOrphans
  <1>1. ASSUME Sound, NEW b \in issued
        PROVE  b < nextId /\ nextId \in Nat /\ b \in Nat
    <2>1. issued \subseteq 1 .. MaxBooks /\ nextId \in 1 .. MaxBooks + 1 /\ b < nextId
      BY <1>1 DEF Ids, Sound, SoundDb
    <2> QED BY <2>1, IndexAssumption
  <1>2. Sound /\ [Next]_vars
          => [\A b \in (Named \cap issued) \ Rows : b \notin Rows']_vars
    <2> SUFFICES ASSUME Sound, [Next]_vars, NEW b \in (Named \cap issued) \ Rows
                 PROVE  b \notin Rows'
      OBVIOUS
    <2>1. b < nextId /\ nextId \in Nat /\ b \in Nat
      BY <1>1
    <2> QED BY <2>1, OnlyNextIdIsBorn
  <1> QED BY <1>2, SoundAlways, PTL DEF Spec, OrphansStayOrphans

-----------------------------------------------------------------------------
(* The scan alone: no directory is watched, so no timer is ever started,   *)
(* and no provider returns an ISBN, so the queue never merges two books.   *)
(* Files may change, readers use their shelves and administrators clear    *)
(* the library all the while, and the program may restart at any point.    *)
Undisturbed == Watched = {} /\ ISBNs = {}

OthersRest ==
  /\ timer = [f \in Paths |-> "none"] /\ loose = {}
  /\ firing = [c \in Callbacks |-> NoRow]
  /\ \A p \in Procs \ {Scanner} : op[p] = Idle

(* books.file_path is UNIQUE.                                              *)
UniqueFiles == \A a, b \in Rows : books[a].file = books[b].file => a = b

(* What the operation o of the scanner relies on: the phase it belongs to; *)
(* a path looked up and not found is still not there; a book that is about *)
(* to be removed has a file the scan did not see; both books of a merge    *)
(* are there, or a clear has deleted both.                                 *)
Visiting == {"stat", "refresh", "lookBook", "find", "attach", "insert", "update"}
Pruning  == {"locs", "deleteBook", "promote"}

PhaseFits(o) ==
  /\ o.pc \in Visiting \cup Pruning \cup {"idle", "merge"}
  /\ o.pc \in Visiting => scan.phase = "walk"
  /\ o.pc \in Pruning => scan.phase = "prune"
  /\ o.pc = "merge" => scan.phase = "merge"

VisitKnows(o) ==
  /\ o.pc \in {"lookBook", "find", "attach", "insert"} => o.file \notin Located
  /\ o.pc \in {"find", "attach", "insert"} => BookAt(o.file) = {}
  /\ o.pc = "update" /\ o.book \in Rows => books[o.book].file = o.file

PruneKnows(o) ==
  /\ o.pc \in Pruning => o.book \notin scan.stale
  /\ o.pc \in Pruning /\ o.book \in Rows => books[o.book].file \notin scan.seen
  /\ o.pc = "deleteBook" /\ o.book \in Rows => LocsOf(o.book) = {}
  /\ o.pc = "promote" /\ o.book \in Rows => o.file \in Located
  /\ o.pc = "promote" /\ o.file \in Located => locs[o.file].book = o.book

MergeKnows(o) == o.pc = "merge" => (o.book \in Rows <=> o.drop \in Rows)

(* Two books of one title are in one group, or one of them is about to be  *)
(* dropped.                                                                *)
TwinsListed(o) ==
  scan.phase = "merge" =>
    \A a, b \in Rows : a # b /\ books[a].title = books[b].title /\ books[a].title \in Titles =>
      \/ \E g \in scan.groups : {a, b} \subseteq g.rest \cup {g.keep}
      \/ o.pc = "merge" /\ o.drop \in {a, b}

ScannerKnows(o) ==
  PhaseFits(o) /\ VisitKnows(o) /\ PruneKnows(o) /\ MergeKnows(o) /\ TwinsListed(o)

(* What the prune has yet to visit was not seen.                           *)
UnseenLeft ==
  /\ scan.phase = "prune" => \A b \in scan.stale \cap Rows : books[b].file \notin scan.seen
  /\ scan.phase = "locations" => scan.todo \cap scan.seen = {}

Alone == OthersRest /\ UniqueFiles /\ OneRolePerFile /\ UnseenLeft /\ ScannerKnows(op[Scanner])

LEMMA ScannerIsProc == Scanner \in Procs /\ Enricher \in Procs \ {Scanner}
  BY DEF Procs, Scanner, Enricher

(* The steps that are left.                                                *)
AloneStep ==
  \/ \E f \in Paths : (\E t \in Contents : WriteFile(f, t)) \/ RemoveFile(f)
  \/ Upsert(Scanner)
  \/ RemoveReadLocs(Scanner) \/ RemoveBook(Scanner) \/ Promote(Scanner)
  \/ MergeBooks(Scanner)
  \/ \E b \in Ids, s \in Shelves : AddBookToShelf(s, b)
  \/ ScanSteps \/ RequestScan \/ ClearLibrary \/ ClearEnqueue \/ Crash

LEMMA OnlyAloneSteps ==
  ASSUME Undisturbed, Sound, Alone, Next
  PROVE  AloneStep
  <1>1. ASSUME NEW c \in Callbacks,
               FireEnd(c) \/ \E f \in Paths, k \in Kinds : Fire(c, f, k)
        PROVE  FALSE
    BY <1>1 DEF FireEnd, Fire, Alone, OthersRest, Kinds
  <1>2. ASSUME NEW p \in Procs \ {Scanner}, Upsert(p) \/ Remove(p) \/ MergeBooks(p)
        PROVE  FALSE
    <2>1. op[p].pc = "idle"
      BY DEF Alone, OthersRest, Idle
    <2> QED BY <1>2, <2>1 DEF Upsert, Remove, UpsertLocation, UpsertRefresh, UpsertLookBook,
            UpsertUpdate, UpsertFind, UpsertAttach, UpsertInsert, DeleteLookup, DeleteLocation,
            RemoveReadLocs, RemoveBook, Promote, MergeBooks, At
  <1>3. ~ MergeDuplicateISBN
    BY ScannerIsProc DEF MergeDuplicateISBN, At, Alone, OthersRest, Idle
  <1>4. ~ DeleteLookup(Scanner) /\ ~ DeleteLocation(Scanner)
    BY DEF DeleteLookup, DeleteLocation, At, Alone, ScannerKnows, PhaseFits, Visiting, Pruning
  <1>5. ~ \E b \in Ids, i \in ISBNs : ApplyEnrichment(b, i)
    BY DEF Undisturbed
  <1> QED BY <1>1, <1>2, <1>3, <1>4, <1>5 DEF Next, AloneStep, Remove

(* The scanner moves on and the others rest.                               *)
LEMMA OthersStillRest ==
  ASSUME Sound, OthersRest, UNCHANGED <<timer, loose, firing>>,
         UNCHANGED op \/ \E r : Step(Scanner, r)
  PROVE  OthersRest'
  BY DEF Sound, SoundOps, OthersRest, Step

LEMMA ScannerMoves ==
  ASSUME Sound, NEW r, Step(Scanner, r)
  PROVE  op'[Scanner] = r
  BY ScannerIsProc DEF Sound, SoundOps, Step

LEMMA SameTables ==
  ASSUME UNCHANGED <<books, locs>>
  PROVE  /\ Rows' = Rows /\ Located' = Located
         /\ \A f : BookAt(f)' = BookAt(f)
         /\ \A b : LocsOf(b)' = LocsOf(b)
         /\ UniqueFiles <=> UniqueFiles'
         /\ OneRolePerFile <=> OneRolePerFile'
  BY DEF Rows, Located, BookAt, LocsOf, UniqueFiles, OneRolePerFile

LEMMA ReadsAlone ==
  ASSUME Sound, Alone, NEW r, Step(Scanner, r), ScannerKnows(r),
         UNCHANGED <<timer, loose, firing, books, locs, scan>>
  PROVE  Alone'
  <1>1. OthersRest' /\ op'[Scanner] = r
    BY OthersStillRest, ScannerMoves DEF Alone
  <1>2. ScannerKnows(r)'
    BY DEF ScannerKnows, PhaseFits, VisitKnows, PruneKnows, MergeKnows, TwinsListed,
           Rows, Located, BookAt, LocsOf
  <1>3. UniqueFiles' /\ OneRolePerFile'
    BY SameTables DEF Alone
  <1>4. UnseenLeft'
    BY SameTables DEF Alone, UnseenLeft
  <1> QED BY <1>1, <1>2, <1>3, <1>4 DEF Alone

LEMMA IdleKnows ==
  ASSUME scan.phase # "merge"
  PROVE  ScannerKnows(Idle)
  BY DEF ScannerKnows, PhaseFits, VisitKnows, PruneKnows, MergeKnows, TwinsListed, Idle,
         Visiting, Pruning

LEMMA WritesAlone ==
  ASSUME Sound, Alone, Return(Scanner), scan' = scan, scan.phase # "merge",
         UNCHANGED <<timer, loose, firing>>, UniqueFiles', OneRolePerFile', UnseenLeft'
  PROVE  Alone'
  <1>1. OthersRest' /\ op'[Scanner] = Idle
    BY OthersStillRest, ScannerMoves DEF Alone, Return
  <1>2. ScannerKnows(Idle)'
    BY DEF ScannerKnows, PhaseFits, VisitKnows, PruneKnows, MergeKnows, TwinsListed, Idle,
           Visiting, Pruning
  <1> QED BY <1>1, <1>2 DEF Alone

-----------------------------------------------------------------------------
(* Alone, one lemma for each action.                                       *)

LEMMA VisitReadsAlone ==
  ASSUME Sound, Alone,
         UpsertLocation(Scanner) \/ UpsertLookBook(Scanner) \/ UpsertFind(Scanner)
  PROVE  Alone'
  <1> DEFINE o == op[Scanner]
             f == o.file
  <1>1. o \in Op /\ ScannerKnows(o) /\ o.pc \in {"stat", "lookBook", "find"}
    BY ScannerIsProc DEF Sound, SoundOps, Alone, At, UpsertLocation, UpsertLookBook, UpsertFind
  <1>2. scan.phase = "walk"
    BY <1>1 DEF ScannerKnows, PhaseFits, Visiting
  <1>3. UNCHANGED <<timer, loose, firing, books, locs, scan>>
    BY DEF UpsertLocation, UpsertLookBook, UpsertFind, env, db
  <1>4. ASSUME NEW r \in Op, Step(Scanner, r),
               r.pc \in {"idle", "refresh", "lookBook", "find", "attach", "insert", "update"},
               VisitKnows(r)
        PROVE  Alone'
    <2>1. ScannerKnows(r)
      BY <1>2, <1>4 DEF ScannerKnows, PhaseFits, PruneKnows, MergeKnows, TwinsListed, Visiting,
         Pruning
    <2> QED BY <1>3, <1>4, <2>1, ReadsAlone
  <1>5. ASSUME Return(Scanner) PROVE Alone'
    BY <1>2, <1>3, <1>5, IdleKnows, ReadsAlone DEF Return
  <1>6. CASE UpsertLocation(Scanner) /\ ~ Return(Scanner)
    <2> DEFINE pc == IF f \in Located THEN "refresh" ELSE "lookBook"
               r == [o EXCEPT !.pc = pc, !.stamp = disk[f].stamp]
    <2>1. Step(Scanner, r) /\ f \in OnDisk
      BY <1>6 DEF UpsertLocation
    <2>2. disk[f].stamp \in Nat
      BY <2>1 DEF Sound, SoundEnv, OnDisk, File
    <2>3. pc \in {"refresh", "lookBook"} /\ (pc = "lookBook" => f \notin Located)
      OBVIOUS
    <2> HIDE DEF pc
    <2>4. r \in Op /\ r.pc = pc /\ r.file = f
      BY <1>1, <2>2, <2>3 DEF Op
    <2> HIDE DEF r
    <2>5. VisitKnows(r)
      BY <2>3, <2>4 DEF VisitKnows
    <2> QED BY <1>4, <2>1, <2>3, <2>4, <2>5
  <1>7. CASE UpsertLookBook(Scanner) /\ ~ Return(Scanner)
    <2> DEFINE t == ParseFile(f)
    <2>1. f \notin Located /\ f \in Paths
      BY <1>1, <1>7, OpAtHand, ScannerIsProc
         DEF ScannerKnows, VisitKnows, UpsertLookBook, At, HasFile, Sound
    <2>2. t \in Contents
      BY <2>1 DEF ParseFile, Sound, SoundEnv, OnDisk, File, Contents
    <2>3. \/ /\ BookAt(f) = {}
             /\ \E pc \in {"insert", "find"} : Step(Scanner, [o EXCEPT !.pc = pc, !.title = t])
          \/ \E b \in BookAt(f) :
               Step(Scanner, [o EXCEPT !.pc = "update", !.title = t, !.book = b])
      BY <1>7 DEF UpsertLookBook
    <2> HIDE DEF t
    <2>4. ASSUME BookAt(f) = {}, NEW pc \in {"insert", "find"},
                 Step(Scanner, [o EXCEPT !.pc = pc, !.title = t])
          PROVE  Alone'
      <3> DEFINE r == [o EXCEPT !.pc = pc, !.title = t]
      <3>1. r \in Op /\ r.pc = pc /\ r.file = f /\ Step(Scanner, r)
        BY <1>1, <2>2, <2>4 DEF Op
      <3> HIDE DEF r
      <3>2. VisitKnows(r)
        BY <2>1, <2>4, <3>1 DEF VisitKnows
      <3> QED BY <1>4, <3>1, <3>2
    <2>5. ASSUME NEW b \in BookAt(f),
                 Step(Scanner, [o EXCEPT !.pc = "update", !.title = t, !.book = b])
          PROVE  Alone'
      <3> DEFINE r == [o EXCEPT !.pc = "update", !.title = t, !.book = b]
      <3>1. b \in Ids /\ books[b].file = f
        BY DEF BookAt, Rows
      <3>2. r \in Op /\ r.pc = "update" /\ r.file = f /\ r.book = b /\ Step(Scanner, r)
        BY <1>1, <2>2, <2>5, <3>1 DEF Op
      <3> HIDE DEF r
      <3>3. VisitKnows(r)
        BY <3>1, <3>2 DEF VisitKnows
      <3> QED BY <1>4, <3>2, <3>3
    <2> QED BY <2>3, <2>4, <2>5
  <1>8. CASE UpsertFind(Scanner)
    <2>1. f \notin Located /\ BookAt(f) = {}
      BY <1>1, <1>8 DEF ScannerKnows, VisitKnows, UpsertFind, At
    <2>2. \/ Step(Scanner, [o EXCEPT !.pc = "insert"])
          \/ \E b \in Rows : Step(Scanner, [o EXCEPT !.pc = "attach", !.book = b])
      BY <1>8 DEF UpsertFind
    <2>3. ASSUME NEW pc \in {"insert", "attach"}, NEW b \in Ids \cup {0},
                 Step(Scanner, [o EXCEPT !.pc = pc, !.book = b])
          PROVE  Alone'
      <3> DEFINE r == [o EXCEPT !.pc = pc, !.book = b]
      <3>1. r \in Op /\ r.pc = pc /\ r.file = f /\ Step(Scanner, r)
        BY <1>1, <2>3 DEF Op
      <3> HIDE DEF r
      <3>2. VisitKnows(r)
        BY <2>1, <3>1 DEF VisitKnows
      <3> QED BY <1>4, <3>1, <3>2
    <2>4. [o EXCEPT !.pc = "insert"] = [o EXCEPT !.pc = "insert", !.book = o.book]
          /\ o.book \in Ids \cup {0}
      BY <1>1 DEF Op
    <2>5. \A b \in Rows : b \in Ids
      BY DEF Rows
    <2> QED BY <2>2, <2>3, <2>4, <2>5
  <1> QED BY <1>5, <1>6, <1>7, <1>8 DEF UpsertFind

(* The operation of a visit runs in the walk, and its path is no location  *)
(* and, once looked up, no book's file.                                    *)
LEMMA VisitAtHand ==
  ASSUME Sound, Alone,
         op[Scanner].pc \in {"refresh", "update", "attach", "insert"}
  PROVE  /\ scan.phase = "walk"
         /\ op[Scanner] \in Op /\ op[Scanner].file \in Paths
         /\ op[Scanner].pc \in {"attach", "insert"} =>
              op[Scanner].file \notin Located /\ BookAt(op[Scanner].file) = {}
  BY OpAtHand, ScannerIsProc DEF Sound, Alone, ScannerKnows, PhaseFits, VisitKnows, Visiting, HasFile

LEMMA UpsertRefreshAlone ==
  ASSUME Sound, Alone, UpsertRefresh(Scanner)
  PROVE  Alone'
  <1>1. scan.phase = "walk"
    BY VisitAtHand DEF UpsertRefresh, At
  <1>2. Located' = Located /\ books' = books
    <2> DEFINE f == op[Scanner].file
               r == [locs[f] EXCEPT !.stamp = op[Scanner].stamp]
    <2>1. CASE f \in Located
      <3>1. f \in Paths /\ locs[f] \in Loc /\ op[Scanner].stamp \in Nat
        BY <2>1, OpAtHand, ScannerIsProc DEF Located, Sound, SoundDb, Op
      <3>2. r \in Loc
        BY <3>1 DEF Loc
      <3>3. locs' = [locs EXCEPT ![f] = r]
        BY <2>1, <3>1 DEF UpsertRefresh, Sound, SoundDb
      <3> HIDE DEF r
      <3> QED BY <2>1, <3>1, <3>2, <3>3, NoRowAssumption DEF Located, UpsertRefresh, Sound, SoundDb
    <2>2. CASE f \notin Located
      BY <2>2 DEF UpsertRefresh, Located
    <2> QED BY <2>1, <2>2
  <1>3. UniqueFiles' /\ OneRolePerFile' /\ UnseenLeft'
    BY <1>1, <1>2 DEF Alone, UniqueFiles, OneRolePerFile, UnseenLeft, BookAt, Rows, UpsertRefresh
  <1>4. Return(Scanner) /\ scan' = scan /\ UNCHANGED <<timer, loose, firing>>
    BY DEF UpsertRefresh, env
  <1> QED BY <1>1, <1>3, <1>4, WritesAlone

LEMMA UpsertAttachAlone ==
  ASSUME Sound, Alone, UpsertAttach(Scanner)
  PROVE  Alone'
  <1> DEFINE f == op[Scanner].file
  <1>1. scan.phase = "walk" /\ f \in Paths /\ f \notin Located /\ BookAt(f) = {}
    BY VisitAtHand DEF UpsertAttach, At
  <1>2. Located' \subseteq Located \cup {f} /\ books' = books
    BY <1>1 DEF UpsertAttach, Located, Sound, SoundDb
  <1>3. UniqueFiles' /\ OneRolePerFile' /\ UnseenLeft'
    BY <1>1, <1>2 DEF Alone, UniqueFiles, OneRolePerFile, UnseenLeft, BookAt, Rows, UpsertAttach
  <1>4. Return(Scanner) /\ scan' = scan /\ UNCHANGED <<timer, loose, firing>>
    BY DEF UpsertAttach, env
  <1> QED BY <1>1, <1>3, <1>4, WritesAlone

LEMMA UpsertInsertAlone ==
  ASSUME Sound, Alone, UpsertInsert(Scanner)
  PROVE  Alone'
  <1> DEFINE o == op[Scanner]
             f == o.file
             r == [file |-> f, stamp |-> o.stamp, title |-> o.title, own |-> TRUE]
  <1>1. /\ scan.phase = "walk" /\ f \in Paths /\ f \notin Located /\ BookAt(f) = {}
        /\ o \in Op
    BY VisitAtHand DEF UpsertInsert, At
  <1>2. /\ nextId \in Ids /\ books' = [books EXCEPT ![nextId] = r] /\ locs' = locs
        /\ Return(Scanner) /\ scan' = scan /\ UNCHANGED <<timer, loose, firing>>
    BY <1>1 DEF UpsertInsert, env
  <1>3. r.file = f
    OBVIOUS
  <1> HIDE DEF r
  <1>4. /\ books'[nextId] = r
        /\ \A b \in Ids \ {nextId} : books'[b] = books[b]
        /\ \A b \in Rows' : b \in Rows \/ b = nextId
        /\ nextId \notin Rows
    BY <1>2 DEF Sound, SoundDb, Rows, Ids
  <1>5. \A b \in Rows : books[b].file # f
    BY <1>1 DEF BookAt
  <1>6. \A b \in Rows' : \/ b = nextId /\ books'[b].file = f
                         \/ b \in Rows /\ books'[b] = books[b]
    BY <1>3, <1>4 DEF Rows
  <1>7. UniqueFiles'
    BY <1>5, <1>6 DEF Alone, UniqueFiles
  <1>8. OneRolePerFile'
    BY <1>1, <1>2, <1>6 DEF Alone, OneRolePerFile, BookAt, Located
  <1> QED BY <1>1, <1>2, <1>7, <1>8, WritesAlone DEF UnseenLeft

(* The row of a book keeps its file, or takes one that is no other book's. *)
LEMMA UpsertUpdateAlone ==
  ASSUME Sound, Alone, UpsertUpdate(Scanner)
  PROVE  /\ Alone'
         /\ Rows' = Rows /\ \A b \in Rows : books'[b].file = books[b].file
  <1> DEFINE o == op[Scanner]
             b == o.book
             g == <<o.file[1], books[b].file[2]>>
             r == [file |-> g, stamp |-> o.stamp, title |-> o.title, own |-> books[b].file = o.file]
  <1>1. /\ scan.phase = "walk" /\ o.file \in Paths /\ o \in Op
        /\ b \in Rows => books[b].file = o.file
    BY VisitAtHand DEF UpsertUpdate, At, Alone, ScannerKnows, VisitKnows
  <1>2. /\ locs' = locs
        /\ Return(Scanner) /\ scan' = scan /\ UNCHANGED <<timer, loose, firing>>
    BY DEF UpsertUpdate, env
  <1>3. Rows' = Rows /\ \A a \in Rows : books'[a].file = books[a].file
    <2>1. CASE b \in Rows /\ BookAt(g) \subseteq {b}
      <3>1. g = books[b].file
        BY <1>1, <2>1, PathIsPair
      <3>2. books' = [books EXCEPT ![b] = r] /\ b \in Ids
        BY <2>1 DEF UpsertUpdate, Rows
      <3>3. r \in Book
        <4>1. o.stamp \in Nat /\ o.title \in Contents /\ g \in Paths
          BY <1>1, <2>1, <3>1 DEF Op
        <4> HIDE DEF g
        <4> QED BY <4>1 DEF Book
      <3>4. r.file = g /\ r # NoRow
        BY <3>3, NoRowAssumption
      <3> HIDE DEF r, g
      <3> QED BY <2>1, <3>1, <3>2, <3>4 DEF Rows, Sound, SoundDb
    <2>2. CASE ~ (b \in Rows /\ BookAt(g) \subseteq {b})
      BY <2>2 DEF UpsertUpdate, Rows
    <2> QED BY <2>1, <2>2
  <1>4. UniqueFiles' /\ OneRolePerFile'
    BY <1>2, <1>3 DEF Alone, UniqueFiles, OneRolePerFile, BookAt, Located
  <1> QED BY <1>1, <1>2, <1>3, <1>4, WritesAlone DEF UnseenLeft

-----------------------------------------------------------------------------
LEMMA PruneAtHand ==
  ASSUME Sound, Alone, op[Scanner].pc \in Pruning
  PROVE  /\ scan.phase = "prune"
         /\ op[Scanner] \in Op /\ op[Scanner].book \in Ids
         /\ op[Scanner].book \notin scan.stale
         /\ op[Scanner].book \in Rows => books[op[Scanner].book].file \notin scan.seen
  BY OpAtHand, ScannerIsProc
     DEF Sound, Alone, ScannerKnows, PhaseFits, PruneKnows, Pruning, HasBook

LEMMA RemoveReadLocsAlone ==
  ASSUME Sound, Alone, RemoveReadLocs(Scanner)
  PROVE  Alone'
  <1> DEFINE o == op[Scanner]
             b == o.book
  <1>1. /\ scan.phase = "prune" /\ o \in Op /\ b \in Ids /\ b \notin scan.stale
        /\ b \in Rows => books[b].file \notin scan.seen
    BY PruneAtHand DEF RemoveReadLocs, At, Pruning
  <1>2. UNCHANGED <<timer, loose, firing, books, locs, scan>>
    BY DEF RemoveReadLocs, env, db
  <1>3. ASSUME NEW r \in Op, Step(Scanner, r), r.pc \in Pruning, PruneKnows(r) PROVE Alone'
    <2>1. ScannerKnows(r)
      BY <1>1, <1>3 DEF ScannerKnows, PhaseFits, VisitKnows, MergeKnows, TwinsListed, Visiting,
         Pruning
    <2> QED BY <1>2, <1>3, <2>1, ReadsAlone
  <1>4. CASE LocsOf(b) = {} /\ Step(Scanner, [o EXCEPT !.pc = "deleteBook"])
    <2> DEFINE r == [o EXCEPT !.pc = "deleteBook"]
    <2>1. r \in Op /\ r.pc = "deleteBook" /\ r.book = b /\ Step(Scanner, r)
      BY <1>1, <1>4 DEF Op
    <2> HIDE DEF r
    <2> QED BY <1>1, <1>3, <1>4, <2>1 DEF PruneKnows, Pruning
  <1>5. ASSUME NEW f \in LocsOf(b),
               Step(Scanner, [o EXCEPT !.pc = "promote", !.file = f, !.stamp = locs[f].stamp])
        PROVE  Alone'
    <2> DEFINE r == [o EXCEPT !.pc = "promote", !.file = f, !.stamp = locs[f].stamp]
    <2>1. f \in Located /\ f \in Paths /\ locs[f].book = b /\ locs[f].stamp \in Nat
      BY DEF LocsOf, Located, Sound, SoundDb, SoundLoc, Loc
    <2>2. r \in Op /\ r.pc = "promote" /\ r.book = b /\ r.file = f /\ Step(Scanner, r)
      BY <1>1, <1>5, <2>1 DEF Op
    <2> HIDE DEF r
    <2> QED BY <1>1, <1>3, <2>1, <2>2 DEF PruneKnows, Pruning
  <1> QED BY <1>4, <1>5 DEF RemoveReadLocs

LEMMA RemoveBookAlone ==
  ASSUME Sound, Alone, RemoveBook(Scanner)
  PROVE  Alone'
  <1> DEFINE b == op[Scanner].book
  <1>1. scan.phase = "prune" /\ b \in Ids
    BY PruneAtHand DEF RemoveBook, At, Pruning
  <1>2. /\ books' = [books EXCEPT ![b] = NoRow] /\ locs' = locs
        /\ Return(Scanner) /\ scan' = scan /\ UNCHANGED <<timer, loose, firing>>
    BY DEF RemoveBook, env
  <1>3. \A a \in Rows' : a \in Rows /\ books'[a] = books[a]
    BY <1>1, <1>2 DEF Sound, SoundDb, Rows
  <1>4. UniqueFiles' /\ OneRolePerFile' /\ UnseenLeft'
    BY <1>1, <1>2, <1>3 DEF Alone, UniqueFiles, OneRolePerFile, UnseenLeft, BookAt, Located
  <1> QED BY <1>1, <1>2, <1>4, WritesAlone

(* The scan's promotion never fails: a location is no book's file.         *)
LEMMA PromoteShape ==
  ASSUME Sound, Alone, Promote(Scanner)
  PROVE  LET b == op[Scanner].book
             f == op[Scanner].file
         IN /\ b \in Ids /\ f \in Paths
            /\ b \in Rows => f \in LocsOf(b)
            /\ Rows' = Rows
            /\ \A a \in Rows : books'[a].file = IF a = b THEN f ELSE books[a].file
            /\ Located' = Located \ {f}
            /\ \A g \in Located' : locs'[g] = locs[g]
            /\ scan' = scan /\ Return(Scanner) /\ UNCHANGED <<timer, loose, firing>>
  <1> DEFINE o == op[Scanner]
             b == o.book
             f == o.file
             r == [books[b] EXCEPT !.file = f, !.stamp = o.stamp, !.own = FALSE]
  <1>1. o \in Op /\ b \in Ids /\ f \in Paths /\ o.pc = "promote"
    BY OpAtHand, ScannerIsProc DEF Sound, Promote, At, HasFile, HasBook
  <1>2. b \in Rows => f \in LocsOf(b) /\ BookAt(f) = {}
    BY <1>1 DEF Alone, ScannerKnows, PruneKnows, OneRolePerFile, LocsOf
  <1>3. /\ books' = IF b \in Rows
                    THEN [books EXCEPT ![b].file = f, ![b].stamp = o.stamp, ![b].own = FALSE]
                    ELSE books
        /\ locs' = [locs EXCEPT ![f] = NoRow]
        /\ scan' = scan /\ Return(Scanner) /\ UNCHANGED <<timer, loose, firing>>
    BY <1>2 DEF Promote, env
  <1>4. Located' = Located \ {f} /\ \A g \in Located' : locs'[g] = locs[g]
    BY <1>1, <1>3 DEF Located, Sound, SoundDb
  <1>5. Rows' = Rows /\ \A a \in Rows : books'[a].file = IF a = b THEN f ELSE books[a].file
    <2>1. CASE b \in Rows
      <3>1. books[b] \in Book
        BY <2>1 DEF Sound, SoundDb, SoundBook
      <3>2. r \in Book /\ r.file = f
        BY <1>1, <3>1 DEF Book, Op
      <3>3. books' = [books EXCEPT ![b] = r]
        BY <1>1, <1>3, <2>1, <3>1 DEF Sound, SoundDb, Book
      <3> HIDE DEF r
      <3> QED BY <1>1, <2>1, <3>2, <3>3, NoRowAssumption DEF Rows, Sound, SoundDb
    <2>2. CASE b \notin Rows
      BY <1>3, <2>2 DEF Rows
    <2> QED BY <2>1, <2>2
  <1> QED BY <1>1, <1>2, <1>3, <1>4, <1>5

LEMMA PromoteAlone ==
  ASSUME Sound, Alone, Promote(Scanner)
  PROVE  Alone'
  <1> DEFINE b == op[Scanner].book
             f == op[Scanner].file
  <1>1. scan.phase = "prune" /\ b \notin scan.stale
    BY PruneAtHand DEF Promote, At, Pruning
  <1>2. /\ Rows' = Rows
        /\ \A a \in Rows : books'[a].file = IF a = b THEN f ELSE books[a].file
        /\ Located' = Located \ {f}
        /\ b \in Rows => f \in Located
        /\ scan' = scan /\ Return(Scanner) /\ UNCHANGED <<timer, loose, firing>>
    BY PromoteShape DEF LocsOf
  <1>3. b \in Rows => \A a \in Rows : books[a].file # f
    BY <1>2 DEF Alone, OneRolePerFile, BookAt
  <1>4. UniqueFiles' /\ OneRolePerFile' /\ UnseenLeft'
    BY <1>1, <1>2, <1>3 DEF Alone, UniqueFiles, OneRolePerFile, UnseenLeft, BookAt
  <1> QED BY <1>1, <1>2, <1>4, WritesAlone

-----------------------------------------------------------------------------
(* A merge takes place with both books there, or not at all.               *)
LEMMA MergeShape ==
  ASSUME Sound, Alone, MergeBooks(Scanner)
  PROVE  LET keep == op[Scanner].book
             drop == op[Scanner].drop
         IN /\ keep \in Ids /\ drop \in Ids /\ keep # drop /\ scan.phase = "merge"
            /\ Return(Scanner) /\ scan' = scan /\ UNCHANGED <<timer, loose, firing>>
            /\ Rows' = Rows \ {drop} /\ \A a \in Rows' : books'[a] = books[a]
            /\ \/ drop \notin Rows /\ UNCHANGED <<books, locs, shelf>>
               \/ /\ keep \in Rows /\ drop \in Rows
                  /\ locs' = MergeLocs(keep, drop)
                  /\ shelf' = MergeShelf(keep, drop)
  <1> DEFINE keep == op[Scanner].book
             drop == op[Scanner].drop
  <1>1. /\ keep \in Ids /\ drop \in Ids /\ keep # drop /\ op[Scanner].pc = "merge"
    BY OpAtHand, ScannerIsProc DEF Sound, MergeBooks, At, HasBook, SoundOp
  <1>2. scan.phase = "merge" /\ (keep \in Rows <=> drop \in Rows)
    BY <1>1 DEF Alone, ScannerKnows, PhaseFits, MergeKnows
  <1>3. Return(Scanner) /\ scan' = scan /\ UNCHANGED <<timer, loose, firing>>
    BY DEF MergeBooks, env
  <1>4. CASE drop \in Rows
    <2>1. /\ books' = [books EXCEPT ![drop] = NoRow]
          /\ locs' = MergeLocs(keep, drop) /\ shelf' = MergeShelf(keep, drop)
      BY <1>4 DEF MergeBooks
    <2>2. Rows' = Rows \ {drop} /\ \A a \in Rows' : books'[a] = books[a]
      BY <1>1, <2>1 DEF Rows, Sound, SoundDb
    <2> QED BY <1>1, <1>2, <1>3, <1>4, <2>1, <2>2
  <1>5. CASE drop \notin Rows
    <2>1. UNCHANGED <<books, locs, shelf>>
      BY <1>5 DEF MergeBooks
    <2>2. Rows' = Rows \ {drop} /\ \A a \in Rows' : books'[a] = books[a]
      BY <1>5, <2>1 DEF Rows
    <2> QED BY <1>1, <1>2, <1>3, <1>5, <2>1, <2>2
  <1> QED BY <1>4, <1>5

(* The locations after a merge.                                            *)
LEMMA MergedLocs ==
  ASSUME Sound, NEW keep \in Ids, NEW drop \in Rows, locs' = MergeLocs(keep, drop)
  PROVE  /\ Located' = Located \cup {books[drop].file}
         /\ \A f \in Located' :
              IF f \in Located /\ locs[f].book # drop
              THEN locs'[f] = locs[f]
              ELSE locs'[f].book = keep
  <1>1. books[drop] \in Book
    BY DEF Sound, SoundDb, SoundBook
  <1>2. books[drop].file \in Paths /\ books[drop].stamp \in Nat
    BY <1>1 DEF Book
  <1> DEFINE new == [book |-> keep, stamp |-> books[drop].stamp]
             moved(f) == [locs[f] EXCEPT !.book = keep]
  <1>3. new \in Loc /\ new.book = keep
    BY <1>2 DEF Loc
  <1>4. \A f \in Located : moved(f) \in Loc /\ moved(f).book = keep
    BY DEF Located, Loc, Sound, SoundDb
  <1>5. \A f \in Paths :
          locs'[f] = IF f = books[drop].file /\ f \notin Located THEN new
                     ELSE IF f \in LocsOf(drop) THEN moved(f) ELSE locs[f]
    BY DEF MergeLocs
  <1> HIDE DEF new, moved
  <1> QED BY <1>2, <1>3, <1>4, <1>5, NoRowAssumption DEF Located, LocsOf

LEMMA MergeAlone ==
  ASSUME Sound, Alone, MergeBooks(Scanner)
  PROVE  Alone'
  <1> DEFINE keep == op[Scanner].book
             drop == op[Scanner].drop
  <1>1. /\ keep \in Ids /\ drop \in Ids /\ keep # drop /\ scan.phase = "merge"
        /\ Return(Scanner) /\ scan' = scan /\ UNCHANGED <<timer, loose, firing>>
        /\ Rows' = Rows \ {drop} /\ \A a \in Rows' : books'[a] = books[a]
    BY MergeShape
  <1>2. OthersRest' /\ op'[Scanner] = Idle
    BY <1>1, OthersStillRest, ScannerMoves DEF Alone, Return
  <1>3. UniqueFiles'
    BY <1>1 DEF Alone, UniqueFiles
  <1>4. OneRolePerFile'
    <2>1. CASE UNCHANGED locs
      BY <1>1, <2>1 DEF Alone, OneRolePerFile, BookAt, Located
    <2>2. CASE drop \in Rows /\ locs' = MergeLocs(keep, drop)
      <3>1. Located' = Located \cup {books[drop].file}
        BY <1>1, <2>2, MergedLocs
      <3>2. \A a \in Rows' : books[a].file # books[drop].file
        BY <1>1, <2>2 DEF Alone, UniqueFiles
      <3> QED BY <1>1, <3>1, <3>2 DEF Alone, OneRolePerFile, BookAt
    <2> QED BY <2>1, <2>2, MergeShape
  <1>5. UnseenLeft'
    BY <1>1 DEF UnseenLeft
  <1>6. TwinsListed(op[Scanner])
    BY DEF Alone, ScannerKnows
  <1>7. TwinsListed(Idle)'
    BY <1>1, <1>6 DEF TwinsListed
  <1>8. ScannerKnows(Idle)'
    BY <1>7 DEF ScannerKnows, PhaseFits, VisitKnows, PruneKnows, MergeKnows, Idle, Visiting,
       Pruning
  <1> QED BY <1>2, <1>3, <1>4, <1>5, <1>8 DEF Alone

-----------------------------------------------------------------------------
(* Steps of the scan that touch no table.                                  *)
LEMMA ScanMovesAlone ==
  ASSUME Sound, Alone, UNCHANGED <<timer, loose, firing, books, locs, op>>,
         ScannerKnows(op[Scanner])', UnseenLeft'
  PROVE  Alone'
  BY OthersStillRest, SameTables DEF Alone

LEMMA ScanStartAlone ==
  ASSUME Sound, Alone, ScanStart
  PROVE  Alone'
  <1>1. op[Scanner].pc = "idle"
    BY DEF ScanStart, Busy, Alone, ScannerKnows, PhaseFits, Visiting, Pruning
  <1>2. scan'.phase = "walk" /\ op' = op /\ UNCHANGED <<timer, loose, firing, books, locs>>
    BY DEF ScanStart, NoScan, env, db
  <1>3. ScannerKnows(op[Scanner])'
    BY <1>1, <1>2 DEF ScannerKnows, PhaseFits, VisitKnows, PruneKnows, MergeKnows, TwinsListed,
       Visiting, Pruning
  <1> QED BY <1>2, <1>3, ScanMovesAlone DEF UnseenLeft

LEMMA ScanListsAlone ==
  ASSUME Sound, Alone, ScanList \/ ScanListStale \/ ScanListLocations \/ ScanFinish
  PROVE  Alone'
  <1>1. op[Scanner].pc = "idle" /\ op' = op /\ UNCHANGED <<timer, loose, firing, books, locs>>
    BY DEF ScanList, ScanListStale, ScanListLocations, ScanFinish, Scanning, At, env, db
  <1>2. scan \in Scans
    BY DEF Sound, SoundScan
  <1>3. /\ scan'.phase # "merge"
        /\ scan'.phase = "prune" => \A b \in scan'.stale : books[b].file \notin scan'.seen
        /\ scan'.phase = "locations" => scan'.todo \cap scan'.seen = {}
    <2>1. CASE ScanList
      BY <1>2, <2>1 DEF ScanList, Scanning, Scans
    <2>2. CASE ScanListStale
      BY <1>2, <2>2 DEF ScanListStale, Scans
    <2>3. CASE ScanListLocations
      BY <1>2, <2>3 DEF ScanListLocations, Scans
    <2>4. CASE ScanFinish
      BY <2>4 DEF ScanFinish, NoScan
    <2> QED BY <2>1, <2>2, <2>3, <2>4
  <1>4. ScannerKnows(op[Scanner])'
    BY <1>1, <1>3 DEF ScannerKnows, PhaseFits, VisitKnows, PruneKnows, MergeKnows, TwinsListed,
       Visiting, Pruning
  <1>5. UnseenLeft'
    BY <1>1, <1>3 DEF UnseenLeft
  <1> QED BY <1>1, <1>4, <1>5, ScanMovesAlone

LEMMA ScanVisitAlone ==
  ASSUME Sound, Alone, ScanVisit
  PROVE  Alone'
  <1> DEFINE visit == [Idle EXCEPT !.pc = "stat", !.file = FirstIn(scan.todo)]
  <1>0. Step(Scanner, visit) /\ visit.pc = "stat"
    BY DEF ScanVisit, Idle
  <1> HIDE DEF visit
  <1>1. PICK r : Step(Scanner, r) /\ r.pc = "stat"
    BY <1>0
  <1>2. scan'.phase = "walk" /\ UNCHANGED <<timer, loose, firing, books, locs>>
    BY DEF ScanVisit, Scanning, Sound, SoundScan, Scans, env, db
  <1>3. OthersRest' /\ op'[Scanner] = r
    BY <1>1, <1>2, OthersStillRest, ScannerMoves DEF Alone
  <1>4. ScannerKnows(r)'
    BY <1>1, <1>2 DEF ScannerKnows, PhaseFits, VisitKnows, PruneKnows, MergeKnows, TwinsListed,
       Visiting, Pruning
  <1>5. UniqueFiles' /\ OneRolePerFile' /\ UnseenLeft'
    BY <1>2, SameTables DEF Alone, UnseenLeft
  <1> QED BY <1>3, <1>4, <1>5 DEF Alone

LEMMA ScanPruneAlone ==
  ASSUME Sound, Alone, NEW b \in Ids, ScanPrune(b)
  PROVE  Alone'
  <1> DEFINE visit == [Idle EXCEPT !.pc = "locs", !.book = b]
  <1>0. Step(Scanner, visit) /\ visit.pc = "locs" /\ visit.book = b
    BY DEF ScanPrune, Idle
  <1> HIDE DEF visit
  <1>1. PICK r : Step(Scanner, r) /\ r.pc = "locs" /\ r.book = b
    BY <1>0
  <1>2. /\ scan.phase = "prune" /\ b \in scan.stale
        /\ scan'.phase = "prune" /\ scan'.stale = scan.stale \ {b} /\ scan'.seen = scan.seen
        /\ UNCHANGED <<timer, loose, firing, books, locs>>
    BY DEF ScanPrune, Scanning, Sound, SoundScan, Scans, env, db
  <1>3. OthersRest' /\ op'[Scanner] = r
    BY <1>1, <1>2, OthersStillRest, ScannerMoves DEF Alone
  <1>4. \A a \in scan.stale \cap Rows : books[a].file \notin scan.seen
    BY <1>2 DEF Alone, UnseenLeft
  <1>5. ScannerKnows(r)'
    BY <1>1, <1>2, <1>4 DEF ScannerKnows, PhaseFits, VisitKnows, PruneKnows, MergeKnows,
       TwinsListed, Visiting, Pruning, Rows
  <1>6. UniqueFiles' /\ OneRolePerFile' /\ UnseenLeft'
    BY <1>2, <1>4, SameTables DEF Alone, UnseenLeft
  <1> QED BY <1>3, <1>5, <1>6 DEF Alone

LEMMA ScanPruneLocationShape ==
  ASSUME Sound, Alone, NEW f \in Paths, ScanPruneLocation(f)
  PROVE  /\ scan.phase = "locations" /\ f \notin scan.seen
         /\ Located' = Located \ {f} /\ \A g \in Located' : locs'[g] = locs[g]
         /\ UNCHANGED <<timer, loose, firing, books, shelf, op>>
  <1>1. scan.phase = "locations" /\ f \notin scan.seen
    BY DEF ScanPruneLocation, Scanning, Alone, UnseenLeft
  <1>2. Located' = Located \ {f} /\ \A g \in Located' : locs'[g] = locs[g]
    BY DEF ScanPruneLocation, Located, Sound, SoundDb
  <1> QED BY <1>1, <1>2 DEF ScanPruneLocation, env

LEMMA ScanPruneLocationAlone ==
  ASSUME Sound, Alone, NEW f \in Paths, ScanPruneLocation(f)
  PROVE  Alone'
  <1>1. /\ op[Scanner].pc = "idle"
        /\ scan'.phase = "locations" /\ scan'.todo \subseteq scan.todo /\ scan'.seen = scan.seen
    BY DEF ScanPruneLocation, Scanning, At, Sound, SoundScan, Scans
  <1>2. /\ scan.phase = "locations" /\ Located' = Located \ {f}
        /\ UNCHANGED <<timer, loose, firing, books, op>>
    BY ScanPruneLocationShape
  <1>3. UniqueFiles' /\ OneRolePerFile' /\ UnseenLeft'
    BY <1>1, <1>2 DEF Alone, UniqueFiles, OneRolePerFile, UnseenLeft, BookAt, Rows
  <1>4. ScannerKnows(op[Scanner])'
    BY <1>1, <1>2 DEF ScannerKnows, PhaseFits, VisitKnows, PruneKnows, MergeKnows, TwinsListed,
       Visiting, Pruning
  <1> QED BY <1>2, <1>3, <1>4, OthersStillRest DEF Alone

LEMMA ScanListTitlesAlone ==
  ASSUME Sound, Alone, ScanListTitles
  PROVE  Alone'
  <1> DEFINE dup == {t \in Titles : Cardinality(SameTitle(t)) > 1}
             G(t) == [keep |-> First(SameTitle(t)),
                      rest |-> SameTitle(t) \ {First(SameTitle(t))}]
  <1>1. scan' = [scan EXCEPT !.phase = "merge", !.groups = {G(t) : t \in dup}]
    BY DEF ScanListTitles
  <1>2. scan'.phase = "merge" /\ scan'.groups = {G(t) : t \in dup}
    BY <1>1 DEF Sound, SoundScan, Scans
  <1>3. op[Scanner].pc = "idle" /\ op' = op /\ UNCHANGED <<timer, loose, firing, books, locs>>
    BY DEF ScanListTitles, Scanning, At, env, db
  <1>4. ASSUME NEW a \in Rows, NEW b \in Rows, a # b, books[a].title = books[b].title,
               books[a].title \in Titles
        PROVE  \E g \in scan'.groups : {a, b} \subseteq g.rest \cup {g.keep}
    <2> DEFINE t == books[a].title
    <2>1. a \in SameTitle(t) /\ b \in SameTitle(t)
      BY <1>4 DEF SameTitle
    <2>2. t \in dup
      BY <1>4, <2>1, TwinsAreTwo
    <2>3. {a, b} \subseteq G(t).rest \cup {G(t).keep}
      BY <2>1
    <2> QED BY <1>2, <2>2, <2>3
  <1> HIDE DEF dup, G
  <1>5. TwinsListed(op[Scanner])'
    BY <1>3, <1>4 DEF TwinsListed, Rows
  <1>6. ScannerKnows(op[Scanner])'
    BY <1>2, <1>3, <1>5 DEF ScannerKnows, PhaseFits, VisitKnows, PruneKnows, MergeKnows,
       Visiting, Pruning
  <1> QED BY <1>2, <1>3, <1>6, ScanMovesAlone DEF UnseenLeft

LEMMA ScanPickAlone ==
  ASSUME Sound, Alone, NEW g \in scan.groups, ScanPick(g)
  PROVE  Alone'
  <1> DEFINE b == First(g.rest)
  <1>0. PICK m : m = Picked(g.keep, b)
    OBVIOUS
  <1> DEFINE left == IF g.rest = {b} THEN {} ELSE {[keep |-> m.book, rest |-> g.rest \ {b}]}
  <1>1. op[Scanner].pc = "idle" /\ scan.phase = "merge"
        /\ UNCHANGED <<timer, loose, firing, books, locs>>
    BY DEF ScanPick, Scanning, At, env, db
  <1>2. CASE {g.keep, b} \subseteq Rows
    <2>1. /\ m.pc = "merge" /\ b \in g.rest
          /\ \/ m.book = g.keep /\ m.drop = b
             \/ m.book = b /\ m.drop = g.keep
      BY <1>0, GroupShrinks, PickedIsSound DEF Sound
    <2>2. Step(Scanner, m) /\ scan' = [scan EXCEPT !.groups = (@ \ {g}) \cup left]
      BY <1>2, <1>0 DEF ScanPick
    <2>3. scan'.phase = "merge" /\ scan'.groups = (scan.groups \ {g}) \cup left
      BY <1>1, <2>2 DEF Sound, SoundScan, Scans
    <2>4. OthersRest' /\ op'[Scanner] = m
      BY <1>1, <2>2, OthersStillRest, ScannerMoves DEF Alone
    <2>5. ASSUME NEW x \in Rows, NEW y \in Rows, x # y, {x, y} \subseteq g.rest \cup {g.keep},
                 m.drop \notin {x, y}
          PROVE  \E h \in left : {x, y} \subseteq h.rest \cup {h.keep}
      <3>1. {x, y} \subseteq (g.rest \ {b}) \cup {m.book}
        BY <2>1, <2>5
      <3>2. g.rest # {b}
        BY <2>5, <3>1
      <3> DEFINE h == [keep |-> m.book, rest |-> g.rest \ {b}]
      <3>3. h \in left /\ h.rest = g.rest \ {b} /\ h.keep = m.book
        BY <3>2
      <3> HIDE DEF h, left, b
      <3> QED BY <3>1, <3>3
    <2> HIDE DEF left
    <2>6. TwinsListed(op[Scanner])
      BY DEF Alone, ScannerKnows
    <2>7. TwinsListed(m)'
      <3> SUFFICES ASSUME NEW x \in Rows, NEW y \in Rows, x # y,
                          books[x].title = books[y].title, books[x].title \in Titles,
                          m.drop \notin {x, y}
                   PROVE  \E h \in scan'.groups : {x, y} \subseteq h.rest \cup {h.keep}
        BY <1>1, <2>1 DEF TwinsListed, Rows
      <3>1. PICK h \in scan.groups : {x, y} \subseteq h.rest \cup {h.keep}
        BY <1>1, <2>6 DEF TwinsListed
      <3>2. CASE h = g
        BY <2>3, <2>5, <3>1, <3>2
      <3>3. CASE h # g
        BY <2>3, <3>1, <3>3
      <3> QED BY <3>2, <3>3
    <2>8. m.book \in Rows /\ m.drop \in Rows
      BY <1>2, <2>1
    <2>9. ScannerKnows(m)'
      BY <1>1, <2>1, <2>3, <2>7, <2>8
         DEF ScannerKnows, PhaseFits, VisitKnows, PruneKnows, MergeKnows, Visiting, Pruning, Rows
    <2>10. UniqueFiles' /\ OneRolePerFile' /\ UnseenLeft'
      BY <1>1, <2>3, SameTables DEF Alone, UnseenLeft
    <2> QED BY <2>4, <2>9, <2>10 DEF Alone
  <1>3. CASE ~ ({g.keep, b} \subseteq Rows)
    <2>1. scan' = NoScan /\ UNCHANGED op
      BY <1>3 DEF ScanPick
    <2>2. ScannerKnows(op[Scanner])' /\ UnseenLeft'
      BY <1>1, <2>1 DEF NoScan, ScannerKnows, PhaseFits, VisitKnows, PruneKnows, MergeKnows,
         TwinsListed, UnseenLeft, Visiting, Pruning
    <2> QED BY <1>1, <2>1, <2>2, ScanMovesAlone
  <1> QED BY <1>2, <1>3

-----------------------------------------------------------------------------
(* Files, shelves, requests, clears and restarts.                          *)

(* Nothing the scan relies on changes but whether it is quiet.             *)
LEMMA AsideAlone ==
  ASSUME Sound, Alone, UNCHANGED <<timer, loose, firing, books, locs, op>>,
         scan' = scan \/ Disturb
  PROVE  Alone'
  <1>1. /\ scan'.phase = scan.phase /\ scan'.stale = scan.stale /\ scan'.seen = scan.seen
        /\ scan'.todo = scan.todo /\ scan'.groups = scan.groups
    BY DEF Disturb, Sound, SoundScan, Scans
  <1>2. ScannerKnows(op[Scanner])' /\ UnseenLeft'
    BY <1>1, SameTables DEF Alone, ScannerKnows, PhaseFits, VisitKnows, PruneKnows, MergeKnows,
       TwinsListed, UnseenLeft
  <1> QED BY <1>2, ScanMovesAlone

LEMMA EnvironmentAlone ==
  ASSUME Undisturbed, Sound, Alone,
         \/ \E f \in Paths : (\E t \in Contents : WriteFile(f, t)) \/ RemoveFile(f)
         \/ \E b \in Ids, s \in Shelves : AddBookToShelf(s, b)
         \/ RequestScan \/ ClearEnqueue \/ UNCHANGED vars
  PROVE  Alone'
  <1>1. UNCHANGED <<timer, loose, firing, books, locs, op>> /\ (scan' = scan \/ Disturb)
    BY DEF Undisturbed, WriteFile, RemoveFile, AddBookToShelf, RequestScan, ClearEnqueue, Notify,
           env, db, vars
  <1> QED BY <1>1, AsideAlone

LEMMA ClearLibraryAlone ==
  ASSUME Sound, Alone, ClearLibrary
  PROVE  Alone'
  <1>1. Rows' = {} /\ Located' = {} /\ UNCHANGED <<timer, loose, firing, op>>
    BY DEF ClearLibrary, Rows, Located, env
  <1>2. /\ scan'.phase = scan.phase /\ scan'.stale = scan.stale /\ scan'.seen = scan.seen
        /\ scan'.todo = scan.todo
    BY DEF ClearLibrary, Disturb, Sound, SoundScan, Scans
  <1>3. UniqueFiles' /\ OneRolePerFile'
    BY <1>1 DEF UniqueFiles, OneRolePerFile
  <1>4. ScannerKnows(op[Scanner])' /\ UnseenLeft'
    BY <1>1, <1>2 DEF Alone, ScannerKnows, PhaseFits, VisitKnows, PruneKnows, MergeKnows,
       TwinsListed, UnseenLeft, BookAt, LocsOf
  <1> QED BY <1>1, <1>3, <1>4, OthersStillRest DEF Alone

LEMMA CrashAlone ==
  ASSUME Sound, Alone, Crash
  PROVE  Alone'
  <1>1. OthersRest' /\ op'[Scanner] = Idle
    BY ScannerIsProc DEF Crash, OthersRest
  <1>2. ScannerKnows(Idle)' /\ UnseenLeft'
    BY DEF Crash, NoScan, ScannerKnows, PhaseFits, VisitKnows, PruneKnows, MergeKnows,
           TwinsListed, UnseenLeft, Idle, Visiting, Pruning
  <1>3. UniqueFiles' /\ OneRolePerFile'
    BY SameTables DEF Alone, Crash, db
  <1> QED BY <1>1, <1>2, <1>3 DEF Alone

LEMMA InitAlone == Init => Alone
  BY ScannerIsProc
     DEF Init, Alone, OthersRest, UniqueFiles, OneRolePerFile, UnseenLeft, ScannerKnows, PhaseFits,
         VisitKnows, PruneKnows, MergeKnows, TwinsListed, Rows, Located, NoScan, Idle,
         Visiting, Pruning

LEMMA StepAlone ==
  ASSUME Undisturbed
  PROVE  Sound /\ Alone /\ [Next]_vars => Alone'
  <1> SUFFICES ASSUME Sound, Alone, [Next]_vars PROVE Alone'
    OBVIOUS
  <1>1. AloneStep \/ UNCHANGED vars
    BY OnlyAloneSteps
  <1>2. CASE Upsert(Scanner)
    BY <1>2, VisitReadsAlone, UpsertRefreshAlone, UpsertAttachAlone, UpsertInsertAlone,
       UpsertUpdateAlone DEF Upsert
  <1>3. CASE \/ RemoveReadLocs(Scanner) \/ RemoveBook(Scanner) \/ Promote(Scanner)
             \/ MergeBooks(Scanner)
    BY <1>3, RemoveReadLocsAlone, RemoveBookAlone, PromoteAlone, MergeAlone
  <1>4. CASE ScanSteps
    BY <1>4, ScanStartAlone, ScanListsAlone, ScanVisitAlone, ScanPruneAlone,
       ScanPruneLocationAlone, ScanListTitlesAlone, ScanPickAlone DEF ScanSteps
  <1>5. CASE ClearLibrary \/ Crash
    BY <1>5, ClearLibraryAlone, CrashAlone
  <1> QED BY <1>1, <1>2, <1>3, <1>4, <1>5, EnvironmentAlone DEF AloneStep

LEMMA AloneAlways ==
  ASSUME Undisturbed
  PROVE  Spec => [](Sound /\ Alone)
  <1>1. Init => Sound /\ Alone
    BY InitSound, InitAlone
  <1>2. Sound /\ Alone /\ [Next]_vars => (Sound /\ Alone)'
    BY StepSound, StepAlone
  <1> QED BY <1>1, <1>2, PTL DEF Spec

(* Without the watcher and the queue's merges, a file that is a further    *)
(* location of a book is never the canonical file of one.                  *)
THEOREM RolesAreExclusive ==
  ASSUME Undisturbed
  PROVE  Spec => []OneRolePerFile
  <1>1. Sound /\ Alone => OneRolePerFile
    BY DEF Alone
  <1> QED BY <1>1, AloneAlways, PTL

(* A scan ends with no two books of the same title and author.             *)
THEOREM ScansMergeTwins ==
  ASSUME Undisturbed
  PROVE  Spec => []NoDuplicatesAfterScan
  <1>1. Sound /\ Alone => NoDuplicatesAfterScan
    <2> SUFFICES ASSUME Alone, ScanDone, NEW t \in Titles
                 PROVE  Cardinality(SameTitle(t)) <= 1
      BY DEF NoDuplicatesAfterScan
    <2>1. scan.phase = "merge" /\ op[Scanner].pc = "idle" /\ scan.groups = {}
      BY DEF ScanDone, Scanning, At
    <2>2. ~ \E a, b \in SameTitle(t) : a # b
      BY <2>1 DEF Alone, ScannerKnows, TwinsListed, SameTitle
    <2> QED BY <2>2, TwinsAreTwo
  <1> QED BY <1>1, AloneAlways, PTL

-----------------------------------------------------------------------------
(* What becomes of a file that a book holds: some book that is on every    *)
(* shelf the book was on holds it after the step, or the scan has found    *)
(* the file missing.                                                       *)
Holds(b, f) == books[b].file = f \/ f \in LocsOf(b)

FilesStay ==
  \A b \in Rows, f \in Paths : Holds(b, f) =>
    \/ \E k \in Rows' : Holds(k, f)' /\ \A s \in Shelves : <<s, b>> \in shelf => <<s, k>> \in shelf'
    \/ Busy /\ f \notin scan.seen

TablesGrow ==
  /\ \A b \in Rows : b \in Rows' /\ books'[b].file = books[b].file
  /\ \A f \in Located : f \in Located' /\ locs'[f].book = locs[f].book

LEMMA GrownTablesKeepFiles ==
  ASSUME TablesGrow, shelf \subseteq shelf'
  PROVE  FilesStay
  BY DEF TablesGrow, FilesStay, Holds, LocsOf

LEMMA SameTablesGrow ==
  ASSUME UNCHANGED <<books, locs>>
  PROVE  TablesGrow
  BY DEF TablesGrow, Rows, Located

(* Steps that neither write books nor book_locations.                      *)
LEMMA ReadsKeepTables ==
  ASSUME Undisturbed,
         \/ \E f \in Paths : (\E t \in Contents : WriteFile(f, t)) \/ RemoveFile(f)
         \/ UpsertLocation(Scanner) \/ UpsertLookBook(Scanner) \/ UpsertFind(Scanner)
         \/ RemoveReadLocs(Scanner)
         \/ \E b \in Ids, s \in Shelves : AddBookToShelf(s, b)
         \/ ScanStart \/ ScanList \/ ScanVisit \/ ScanListStale \/ ScanListLocations
         \/ ScanListTitles \/ ScanFinish
         \/ \E b \in Ids : ScanPrune(b)
         \/ \E g \in scan.groups : ScanPick(g)
         \/ RequestScan \/ ClearEnqueue \/ Crash \/ UNCHANGED vars
  PROVE  UNCHANGED <<books, locs>> /\ shelf \subseteq shelf'
  BY DEF WriteFile, RemoveFile, UpsertLocation, UpsertLookBook, UpsertFind, RemoveReadLocs,
         AddBookToShelf, ScanStart, ScanList, ScanVisit, ScanListStale, ScanListLocations,
         ScanListTitles, ScanFinish, ScanPrune, ScanPick, RequestScan, ClearEnqueue, Crash,
         db, vars

LEMMA UpsertRefreshGrows ==
  ASSUME Sound, UpsertRefresh(Scanner)
  PROVE  TablesGrow /\ shelf' = shelf /\ Located' = Located
  <1> DEFINE f == op[Scanner].file
             r == [locs[f] EXCEPT !.stamp = op[Scanner].stamp]
  <1>1. books' = books /\ shelf' = shelf
    BY DEF UpsertRefresh
  <1>2. CASE f \in Located
    <2>1. f \in Paths /\ locs[f] \in Loc /\ op[Scanner].stamp \in Nat
      BY <1>2, OpAtHand, ScannerIsProc DEF Located, Sound, SoundDb, Op
    <2>2. r \in Loc /\ r.book = locs[f].book
      BY <2>1 DEF Loc
    <2>3. locs' = [locs EXCEPT ![f] = r]
      BY <1>2, <2>1 DEF UpsertRefresh, Sound, SoundDb
    <2> HIDE DEF r
    <2>4. Located' = Located /\ \A g \in Located : locs'[g].book = locs[g].book
      BY <1>2, <2>1, <2>2, <2>3, NoRowAssumption DEF Located, Sound, SoundDb
    <2> QED BY <1>1, <2>4 DEF TablesGrow, Rows
  <1>3. CASE f \notin Located
    BY <1>1, <1>3 DEF UpsertRefresh, TablesGrow, Rows, Located
  <1> QED BY <1>2, <1>3

LEMMA UpsertAttachGrows ==
  ASSUME Sound, Alone, UpsertAttach(Scanner)
  PROVE  LET o == op[Scanner] IN
         /\ TablesGrow /\ shelf' = shelf /\ Rows' = Rows
         /\ o.file \in Paths /\ Located' = Located \cup {o.file}
         /\ locs'[o.file].book = o.book
         /\ \A g \in Located : locs'[g] = locs[g]
  <1> DEFINE o == op[Scanner]
             r == [book |-> o.book, stamp |-> o.stamp]
  <1>1. o \in Op /\ o.file \in Paths /\ o.file \notin Located /\ o.book \in Ids
    BY VisitAtHand, OpAtHand, ScannerIsProc DEF UpsertAttach, At, HasBook, Sound
  <1>2. r \in Loc /\ r.book = o.book
    BY <1>1 DEF Loc, Op
  <1>3. locs' = [locs EXCEPT ![o.file] = r] /\ books' = books /\ shelf' = shelf
    BY <1>1 DEF UpsertAttach
  <1> HIDE DEF r
  <1>4. /\ Located' = Located \cup {o.file} /\ locs'[o.file].book = o.book
        /\ \A g \in Located : locs'[g] = locs[g]
    BY <1>1, <1>2, <1>3, NoRowAssumption DEF Located, Sound, SoundDb
  <1>5. TablesGrow /\ Rows' = Rows
    BY <1>3, <1>4 DEF TablesGrow, Rows
  <1> QED BY <1>1, <1>3, <1>4, <1>5

LEMMA UpsertInsertGrows ==
  ASSUME Sound, Alone, UpsertInsert(Scanner)
  PROVE  /\ TablesGrow /\ shelf' = shelf /\ locs' = locs
         /\ \E k \in Rows' : books'[k].file = op[Scanner].file
  <1> DEFINE o == op[Scanner]
             f == o.file
             r == [file |-> f, stamp |-> o.stamp, title |-> o.title, own |-> TRUE]
  <1>1. o \in Op /\ f \in Paths /\ BookAt(f) = {}
    BY VisitAtHand DEF UpsertInsert, At
  <1>2. /\ nextId \in Ids /\ books' = [books EXCEPT ![nextId] = r]
        /\ locs' = locs /\ shelf' = shelf
    BY <1>1 DEF UpsertInsert
  <1>3. r \in Book /\ r.file = f /\ r # NoRow
    <2>1. o.stamp \in Nat /\ o.title \in Contents
      BY <1>1 DEF Op
    <2> HIDE DEF o, f
    <2>2. r \in Book /\ r.file = f
      BY <1>1, <2>1 DEF Book
    <2> QED BY <2>2, NoRowAssumption
  <1> HIDE DEF r
  <1>4. nextId \notin Rows
    BY <1>2 DEF Sound, SoundDb, Ids
  <1>5. nextId \in Rows' /\ books'[nextId] = r /\ \A b \in Rows : b \in Rows' /\ books'[b] = books[b]
    BY <1>2, <1>3, <1>4 DEF Rows, Sound, SoundDb
  <1> QED BY <1>2, <1>3, <1>5 DEF TablesGrow, Located

LEMMA UpsertUpdateGrows ==
  ASSUME Sound, Alone, UpsertUpdate(Scanner)
  PROVE  TablesGrow /\ shelf' = shelf /\ locs' = locs
  BY UpsertUpdateAlone DEF UpsertUpdate, TablesGrow, Located

LEMMA RemoveBookShape ==
  ASSUME Sound, Alone, RemoveBook(Scanner)
  PROVE  LET b == op[Scanner].book IN
         /\ Rows' = Rows \ {b} /\ \A a \in Rows' : books'[a] = books[a]
         /\ locs' = locs /\ shelf' = shelf /\ scan' = scan
         /\ scan.phase = "prune" /\ b \in Ids
         /\ b \in Rows => LocsOf(b) = {} /\ books[b].file \notin scan.seen
  <1> DEFINE b == op[Scanner].book
  <1>1. /\ scan.phase = "prune" /\ b \in Ids
        /\ b \in Rows => LocsOf(b) = {} /\ books[b].file \notin scan.seen
    BY PruneAtHand DEF RemoveBook, At, Pruning, Alone, ScannerKnows, PruneKnows
  <1>2. books' = [books EXCEPT ![b] = NoRow] /\ locs' = locs /\ shelf' = shelf /\ scan' = scan
    BY DEF RemoveBook
  <1>3. Rows' = Rows \ {b} /\ \A a \in Rows' : books'[a] = books[a]
    BY <1>1, <1>2 DEF Rows, Sound, SoundDb
  <1> QED BY <1>1, <1>2, <1>3

LEMMA RemoveBookKeepsFiles ==
  ASSUME Sound, Alone, RemoveBook(Scanner)
  PROVE  FilesStay
  <1> DEFINE d == op[Scanner].book
  <1> SUFFICES ASSUME NEW b \in Rows, NEW f \in Paths, Holds(b, f)
               PROVE  \/ \E k \in Rows' : /\ Holds(k, f)'
                                          /\ \A s \in Shelves : <<s, b>> \in shelf => <<s, k>> \in shelf'
                      \/ Busy /\ f \notin scan.seen
    BY DEF FilesStay
  <1>1. CASE b = d
    BY <1>1, RemoveBookShape DEF Holds, Busy
  <1>2. CASE b # d
    <2>1. b \in Rows' /\ books'[b] = books[b] /\ locs' = locs /\ shelf' = shelf
      BY <1>2, RemoveBookShape
    <2>2. Holds(b, f)'
      BY <2>1 DEF Holds, LocsOf, Located
    <2> QED BY <2>1, <2>2
  <1> QED BY <1>1, <1>2

LEMMA PromoteKeepsFiles ==
  ASSUME Sound, Alone, Promote(Scanner)
  PROVE  FilesStay
  <1> DEFINE d == op[Scanner].book
             g == op[Scanner].file
  <1>1. /\ Rows' = Rows
        /\ \A a \in Rows : books'[a].file = IF a = d THEN g ELSE books[a].file
        /\ Located' = Located \ {g} /\ \A h \in Located' : locs'[h] = locs[h]
        /\ d \in Rows => g \in LocsOf(d)
    BY PromoteShape
  <1>2. /\ scan.phase = "prune"
        /\ d \in Rows => books[d].file \notin scan.seen
        /\ g \in Located => locs[g].book = d
        /\ shelf' = shelf
    BY PruneAtHand DEF Promote, At, Pruning, Alone, ScannerKnows, PruneKnows
  <1> SUFFICES ASSUME NEW b \in Rows, NEW f \in Paths, Holds(b, f), f \in scan.seen \/ ~ Busy
               PROVE  Holds(b, f)'
    BY <1>1, <1>2 DEF FilesStay
  <1>3. Busy
    BY <1>2 DEF Busy
  <1>4. CASE books[b].file = f
    BY <1>1, <1>2, <1>3, <1>4 DEF Holds
  <1>5. CASE f \in LocsOf(b)
    <2>1. f = g => b = d
      BY <1>2, <1>5 DEF LocsOf
    <2> QED BY <1>1, <1>5, <2>1 DEF Holds, LocsOf
  <1> QED BY <1>4, <1>5 DEF Holds

LEMMA ScanPruneLocationKeepsFiles ==
  ASSUME Sound, Alone, NEW g \in Paths, ScanPruneLocation(g)
  PROVE  FilesStay
  <1>1. /\ scan.phase = "locations" /\ g \notin scan.seen
        /\ Located' = Located \ {g} /\ \A h \in Located' : locs'[h] = locs[h]
        /\ books' = books /\ shelf' = shelf
    BY ScanPruneLocationShape
  <1> QED BY <1>1 DEF FilesStay, Holds, LocsOf, Rows, Busy

LEMMA MergeKeepsFiles ==
  ASSUME Sound, Alone, MergeBooks(Scanner)
  PROVE  FilesStay
  <1> DEFINE keep == op[Scanner].book
             drop == op[Scanner].drop
  <1>1. CASE drop \notin Rows
    BY <1>1, MergeShape, SameTablesGrow, GrownTablesKeepFiles
  <1>2. CASE drop \in Rows
    <2>1. /\ keep \in Rows' /\ keep # drop
          /\ Rows' = Rows \ {drop} /\ \A a \in Rows' : books'[a] = books[a]
          /\ locs' = MergeLocs(keep, drop) /\ shelf' = MergeShelf(keep, drop)
      BY <1>2, MergeShape
    <2>2. /\ Located' = Located \cup {books[drop].file}
          /\ \A f \in Located' : IF f \in Located /\ locs[f].book # drop
                                 THEN locs'[f] = locs[f]
                                 ELSE locs'[f].book = keep
      BY <1>2, <2>1, MergedLocs DEF Rows
    <2> HIDE DEF keep, drop
    <2>3. ASSUME NEW b \in Rows, NEW s \in Shelves, <<s, b>> \in shelf
          PROVE  <<s, IF b = drop THEN keep ELSE b>> \in shelf'
      BY <2>1, <2>3 DEF MergeShelf
    <2> SUFFICES ASSUME NEW b \in Rows, NEW f \in Paths, Holds(b, f)
                 PROVE  \E k \in Rows' : Holds(k, f)' /\ k = IF b = drop THEN keep ELSE b
      BY <2>3 DEF FilesStay
    <2>4. CASE b = drop
      <3>1. f \in Located' /\ locs'[f].book = keep
        BY <2>2, <2>4 DEF Holds, LocsOf, Alone, OneRolePerFile, BookAt
      <3> QED BY <2>1, <2>4, <3>1 DEF Holds, LocsOf
    <2>5. CASE b # drop
      BY <2>1, <2>2, <2>5 DEF Holds, LocsOf
    <2> QED BY <2>4, <2>5
  <1> QED BY <1>1, <1>2

LEMMA StepKeepsFiles ==
  ASSUME Undisturbed, Sound, Alone, [Next]_vars
  PROVE  FilesStay \/ ClearLibrary
  <1>1. AloneStep \/ UNCHANGED vars
    BY OnlyAloneSteps
  <1>2. ASSUME UNCHANGED <<books, locs>> /\ shelf \subseteq shelf' PROVE FilesStay
    BY <1>2, SameTablesGrow, GrownTablesKeepFiles
  <1>3. CASE Upsert(Scanner)
    <2>1. CASE UpsertLocation(Scanner) \/ UpsertLookBook(Scanner) \/ UpsertFind(Scanner)
      BY <1>2, <2>1, ReadsKeepTables
    <2>2. CASE \/ UpsertRefresh(Scanner) \/ UpsertAttach(Scanner)
               \/ UpsertInsert(Scanner) \/ UpsertUpdate(Scanner)
      <3>1. TablesGrow /\ shelf' = shelf
        BY <2>2, UpsertRefreshGrows, UpsertAttachGrows, UpsertInsertGrows, UpsertUpdateGrows
      <3> QED BY <3>1, GrownTablesKeepFiles
    <2> QED BY <1>3, <2>1, <2>2 DEF Upsert
  <1>4. CASE \/ RemoveReadLocs(Scanner) \/ RemoveBook(Scanner) \/ Promote(Scanner)
             \/ MergeBooks(Scanner)
    BY <1>2, <1>4, ReadsKeepTables, RemoveBookKeepsFiles, PromoteKeepsFiles, MergeKeepsFiles
  <1>5. CASE ScanSteps
    BY <1>2, <1>5, ReadsKeepTables, ScanPruneLocationKeepsFiles DEF ScanSteps
  <1>6. CASE \/ \E f \in Paths : (\E t \in Contents : WriteFile(f, t)) \/ RemoveFile(f)
             \/ \E b \in Ids, s \in Shelves : AddBookToShelf(s, b)
             \/ RequestScan \/ ClearEnqueue \/ Crash \/ UNCHANGED vars
    BY <1>2, <1>6, ReadsKeepTables
  <1> QED BY <1>1, <1>3, <1>4, <1>5, <1>6 DEF AloneStep

(* A reader's shelf survives every promotion, merge and restart, whatever  *)
(* happens to the files in the meantime: when a book goes, a book on the   *)
(* same shelves holds each of its files that the scan has seen.            *)
THEOREM ShelvesStay ==
  ASSUME Undisturbed
  PROVE  Spec => ShelvesSurvive
  <1>1. Sound /\ Alone /\ [Next]_vars =>
          [\A s \in Shelves, f \in Paths : Shelved(s, f) /\ ~ Shelved(s, f)' =>
             \/ Busy /\ f \notin scan.seen
             \/ ~ clear /\ clear']_vars
    <2> SUFFICES ASSUME Sound, Alone, [Next]_vars, NEW s \in Shelves, NEW f \in Paths,
                        Shelved(s, f), ~ Shelved(s, f)', ~ (Busy /\ f \notin scan.seen)
                 PROVE  ~ clear /\ clear'
      OBVIOUS
    <2>1. CASE ClearLibrary
      BY <2>1 DEF ClearLibrary
    <2>2. CASE FilesStay
      <3>1. PICK b \in Rows : <<s, b>> \in shelf /\ Holds(b, f)
        BY DEF Shelved, Holds
      <3>2. PICK k \in Rows' : Holds(k, f)' /\ <<s, k>> \in shelf'
        BY <2>2, <3>1 DEF FilesStay
      <3>3. Shelved(s, f)'
        BY <3>2 DEF Shelved, Holds
      <3> QED BY <3>3
    <2> QED BY <2>1, <2>2, StepKeepsFiles
  <1> QED BY <1>1, AloneAlways, PTL DEF Spec, ShelvesSurvive

-----------------------------------------------------------------------------
(* The scan alone, and no clear: every location has its book, and a scan   *)
(* that nothing interfered with has dealt with each file or will.          *)
InSight(f) == f \in scan.seen \/ (scan.phase = "walk" /\ f[1] \in scan.roots)

Due(f, o) == \/ scan.phase = "walk" /\ (f[1] \in scan.roots \/ f \in scan.todo)
             \/ o.pc \in Visiting /\ o.file = f

QuietScan(o) ==
  Busy /\ scan.quiet => \A f \in OnDisk : InSight(f) /\ (Shown(f) \/ Due(f, o))

(* What the visit of a file has looked up is still there.                  *)
VisitHolds(o) ==
  /\ o.pc \in {"attach", "update"} => o.book \in Rows
  /\ o.pc = "refresh" => o.file \in Located

Kept == LocationsHaveBooks /\ VisitHolds(op[Scanner]) /\ QuietScan(op[Scanner])

LEMMA NoClear ==
  ASSUME MaxClears = 0, Sound
  PROVE  ~ ClearLibrary
  BY DEF Sound, SoundCtl, ClearLibrary

LEMMA LocationsKept ==
  ASSUME Undisturbed, MaxClears = 0, Sound, Alone, Kept, [Next]_vars
  PROVE  LocationsHaveBooks'
  <1>1. AloneStep \/ UNCHANGED vars
    BY OnlyAloneSteps
  <1>2. ASSUME UNCHANGED <<books, locs>> PROVE LocationsHaveBooks'
    BY <1>2 DEF Kept, LocationsHaveBooks, Located, Rows
  <1>3. ASSUME TablesGrow, Located' = Located PROVE LocationsHaveBooks'
    BY <1>3 DEF Kept, LocationsHaveBooks, TablesGrow
  <1>4. CASE UpsertLocation(Scanner) \/ UpsertLookBook(Scanner) \/ UpsertFind(Scanner)
    BY <1>2, <1>4, ReadsKeepTables
  <1>5. CASE UpsertRefresh(Scanner) \/ UpsertInsert(Scanner) \/ UpsertUpdate(Scanner)
    BY <1>3, <1>5, UpsertRefreshGrows, UpsertInsertGrows, UpsertUpdateGrows DEF Located
  <1>6. CASE UpsertAttach(Scanner)
    <2>1. op[Scanner].book \in Rows
      BY <1>6 DEF Kept, VisitHolds, UpsertAttach, At
    <2> QED BY <1>6, <2>1, UpsertAttachGrows DEF Kept, LocationsHaveBooks
  <1>7. CASE RemoveReadLocs(Scanner)
    BY <1>2, <1>7, ReadsKeepTables
  <1>8. CASE RemoveBook(Scanner)
    <2> DEFINE b == op[Scanner].book
    <2>1. /\ Rows' = Rows \ {b} /\ locs' = locs
          /\ b \in Rows => LocsOf(b) = {}
      BY <1>8, RemoveBookShape
    <2> QED BY <2>1 DEF Kept, LocationsHaveBooks, Located, LocsOf
  <1>9. CASE Promote(Scanner)
    <2>1. Rows' = Rows /\ Located' \subseteq Located /\ \A g \in Located' : locs'[g] = locs[g]
      BY <1>9, PromoteShape
    <2> QED BY <2>1 DEF Kept, LocationsHaveBooks
  <1>10. CASE MergeBooks(Scanner)
    <2> DEFINE keep == op[Scanner].book
               drop == op[Scanner].drop
    <2>1. CASE drop \notin Rows
      BY <1>2, <1>10, <2>1, MergeShape
    <2>2. CASE drop \in Rows
      <3>1. /\ keep \in Ids /\ keep # drop /\ keep \in Rows
            /\ Rows' = Rows \ {drop} /\ locs' = MergeLocs(keep, drop)
        BY <1>10, <2>2, MergeShape
      <3>2. \A f \in Located' : IF f \in Located /\ locs[f].book # drop
                                THEN locs'[f] = locs[f]
                                ELSE locs'[f].book = keep
        BY <2>2, <3>1, MergedLocs
      <3> HIDE DEF keep, drop
      <3> QED BY <3>1, <3>2 DEF Kept, LocationsHaveBooks
    <2> QED BY <2>1, <2>2
  <1>11. CASE ScanSteps
    <2>1. ASSUME NEW g \in Paths, ScanPruneLocation(g) PROVE LocationsHaveBooks'
      <3>1. Rows' = Rows /\ Located' \subseteq Located /\ \A h \in Located' : locs'[h] = locs[h]
        BY <2>1, ScanPruneLocationShape DEF Rows
      <3> QED BY <3>1 DEF Kept, LocationsHaveBooks
    <2> QED BY <1>2, <1>11, <2>1, ReadsKeepTables DEF ScanSteps
  <1>12. CASE \/ \E f \in Paths : (\E t \in Contents : WriteFile(f, t)) \/ RemoveFile(f)
              \/ \E b \in Ids, s \in Shelves : AddBookToShelf(s, b)
              \/ RequestScan \/ ClearEnqueue \/ Crash \/ UNCHANGED vars
    BY <1>2, <1>12, ReadsKeepTables
  <1> QED BY <1>1, <1>4, <1>5, <1>6, <1>7, <1>8, <1>9, <1>10, <1>11, <1>12, NoClear
      DEF AloneStep, Upsert

(* The scanner's operation is of another kind after the step, or the step  *)
(* touches neither it nor the tables.                                      *)
LEMMA VisitHoldsKept ==
  ASSUME Undisturbed, MaxClears = 0, Sound, Alone, Kept, [Next]_vars
  PROVE  VisitHolds(op[Scanner])'
  <1>1. AloneStep \/ UNCHANGED vars
    BY OnlyAloneSteps
  <1>2. ASSUME UNCHANGED <<books, locs, op>> PROVE VisitHolds(op[Scanner])'
    BY <1>2 DEF Kept, VisitHolds, Located, Rows
  <1>3. ASSUME op'[Scanner].pc \notin {"attach", "update", "refresh"}
        PROVE  VisitHolds(op[Scanner])'
    BY <1>3 DEF VisitHolds
  <1>4. ASSUME Return(Scanner) PROVE VisitHolds(op[Scanner])'
    BY <1>3, <1>4, ScannerMoves DEF Return, Idle
  <1>5. CASE UpsertLocation(Scanner)
    <2> DEFINE f == op[Scanner].file
    <2>1. /\ UNCHANGED <<books, locs>>
          /\ \/ Return(Scanner)
             \/ Step(Scanner, [op[Scanner] EXCEPT !.pc = IF f \in Located THEN "refresh" ELSE "lookBook",
                                                  !.stamp = disk[f].stamp])
      BY <1>5 DEF UpsertLocation, db
    <2>2. op[Scanner] \in Op
      BY ScannerIsProc DEF Sound, SoundOps
    <2> DEFINE r == [op[Scanner] EXCEPT !.pc = IF f \in Located THEN "refresh" ELSE "lookBook",
                                        !.stamp = disk[f].stamp]
    <2>3. /\ r.pc \in {"refresh", "lookBook"} /\ r.file = f
          /\ r.pc = "refresh" => f \in Located
      BY <2>2 DEF Op
    <2> HIDE DEF r
    <2>4. CASE Step(Scanner, r)
      <3>1. op'[Scanner] = r
        BY <2>4, ScannerMoves
      <3> QED BY <2>1, <2>3, <3>1 DEF VisitHolds, Located
    <2> QED BY <1>4, <2>1, <2>4 DEF r
  <1>6. CASE UpsertLookBook(Scanner)
    <2> DEFINE o == op[Scanner]
               t == ParseFile(o.file)
    <2>1. o \in Op /\ UNCHANGED <<books, locs>>
      BY <1>6, ScannerIsProc DEF Sound, SoundOps, UpsertLookBook, db
    <2>2. ASSUME NEW b \in BookAt(o.file),
                 Step(Scanner, [o EXCEPT !.pc = "update", !.title = t, !.book = b])
          PROVE  VisitHolds(op[Scanner])'
      <3> DEFINE r == [o EXCEPT !.pc = "update", !.title = t, !.book = b]
      <3>1. r.pc = "update" /\ r.book = b /\ Step(Scanner, r)
        BY <2>1, <2>2 DEF Op
      <3> HIDE DEF r
      <3>2. op'[Scanner] = r
        BY <3>1, ScannerMoves
      <3>3. b \in Rows'
        BY <2>1 DEF BookAt, Rows
      <3> QED BY <3>1, <3>2, <3>3 DEF VisitHolds
    <2>3. ASSUME NEW pc \in {"insert", "find"},
                 Step(Scanner, [o EXCEPT !.pc = pc, !.title = t])
          PROVE  VisitHolds(op[Scanner])'
      <3> DEFINE r == [o EXCEPT !.pc = pc, !.title = t]
      <3>1. r.pc = pc /\ Step(Scanner, r)
        BY <2>1, <2>3 DEF Op
      <3> HIDE DEF r
      <3> QED BY <1>3, <3>1, ScannerMoves
    <2> QED BY <1>4, <1>6, <2>2, <2>3 DEF UpsertLookBook
  <1>7. CASE UpsertFind(Scanner)
    <2> DEFINE o == op[Scanner]
    <2>1. o \in Op /\ UNCHANGED <<books, locs>>
      BY <1>7, ScannerIsProc DEF Sound, SoundOps, UpsertFind, db
    <2>2. ASSUME NEW b \in Rows, Step(Scanner, [o EXCEPT !.pc = "attach", !.book = b])
          PROVE  VisitHolds(op[Scanner])'
      <3> DEFINE r == [o EXCEPT !.pc = "attach", !.book = b]
      <3>1. r.pc = "attach" /\ r.book = b /\ Step(Scanner, r)
        BY <2>1, <2>2 DEF Op
      <3> HIDE DEF r
      <3>2. op'[Scanner] = r /\ b \in Rows'
        BY <2>1, <3>1, ScannerMoves DEF Rows
      <3> QED BY <3>1, <3>2 DEF VisitHolds
    <2>3. ASSUME Step(Scanner, [o EXCEPT !.pc = "insert"])
          PROVE  VisitHolds(op[Scanner])'
      <3> DEFINE r == [o EXCEPT !.pc = "insert"]
      <3>1. r.pc = "insert" /\ Step(Scanner, r)
        BY <2>1, <2>3 DEF Op
      <3> HIDE DEF r
      <3> QED BY <1>3, <3>1, ScannerMoves
    <2> QED BY <1>7, <2>2, <2>3 DEF UpsertFind
  <1>8. CASE \/ UpsertRefresh(Scanner) \/ UpsertAttach(Scanner) \/ UpsertInsert(Scanner)
             \/ UpsertUpdate(Scanner) \/ RemoveBook(Scanner) \/ Promote(Scanner)
             \/ MergeBooks(Scanner)
    BY <1>4, <1>8 DEF UpsertRefresh, UpsertAttach, UpsertInsert, UpsertUpdate, RemoveBook,
       Promote, MergeBooks
  <1>9. CASE RemoveReadLocs(Scanner)
    <2>1. op[Scanner] \in Op
      BY ScannerIsProc DEF Sound, SoundOps
    <2>2. \A f, n : /\ [op[Scanner] EXCEPT !.pc = "deleteBook"].pc = "deleteBook"
                    /\ [op[Scanner] EXCEPT !.pc = "promote", !.file = f, !.stamp = n].pc = "promote"
      BY <2>1 DEF Op
    <2>3. \E r : Step(Scanner, r) /\ r.pc \in {"deleteBook", "promote"}
      BY <1>9, <2>2 DEF RemoveReadLocs
    <2> QED BY <1>3, <2>3, ScannerMoves
  <1>10. CASE ScanSteps
    <2>1. CASE \/ ScanStart \/ ScanList \/ ScanListStale \/ ScanListLocations
               \/ ScanListTitles \/ ScanFinish
      BY <1>2, <2>1 DEF ScanStart, ScanList, ScanListStale, ScanListLocations, ScanListTitles,
         ScanFinish, db
    <2>2. CASE ScanVisit
      <3>1. \E r : Step(Scanner, r) /\ r.pc = "stat"
        <4>1. \A f : [Idle EXCEPT !.pc = "stat", !.file = f].pc = "stat"
          BY DEF Idle
        <4> QED BY <2>2, <4>1 DEF ScanVisit
      <3> QED BY <1>3, <3>1, ScannerMoves
    <2>3. ASSUME NEW b \in Ids, ScanPrune(b) PROVE VisitHolds(op[Scanner])'
      <3>1. \E r : Step(Scanner, r) /\ r.pc = "locs"
        <4>1. [Idle EXCEPT !.pc = "locs", !.book = b].pc = "locs"
          BY DEF Idle
        <4> QED BY <2>3, <4>1 DEF ScanPrune
      <3> QED BY <1>3, <3>1, ScannerMoves
    <2>4. ASSUME NEW f \in Paths, ScanPruneLocation(f) PROVE VisitHolds(op[Scanner])'
      BY <1>3, <2>4 DEF ScanPruneLocation, Scanning, At
    <2>5. ASSUME NEW g \in scan.groups, ScanPick(g) PROVE VisitHolds(op[Scanner])'
      <3>1. op[Scanner].pc = "idle"
        BY <2>5 DEF ScanPick, Scanning, At
      <3>2. \/ UNCHANGED op
            \/ \E r : Step(Scanner, r) /\ r.pc = "merge"
        <4>1. \A a, b : Picked(a, b).pc = "merge"
          BY DEF Picked, Idle
        <4> QED BY <2>5, <4>1 DEF ScanPick
      <3> QED BY <1>3, <3>1, <3>2, ScannerMoves
    <2> QED BY <1>10, <2>1, <2>2, <2>3, <2>4, <2>5 DEF ScanSteps
  <1>11. CASE \/ \E f \in Paths : (\E t \in Contents : WriteFile(f, t)) \/ RemoveFile(f)
              \/ \E b \in Ids, s \in Shelves : AddBookToShelf(s, b)
              \/ RequestScan \/ ClearEnqueue \/ UNCHANGED vars
    BY <1>2, <1>11 DEF WriteFile, RemoveFile, AddBookToShelf, RequestScan, ClearEnqueue, db, vars
  <1>12. CASE Crash
    BY <1>3, <1>12, ScannerIsProc DEF Crash, Idle
  <1> QED BY <1>1, <1>5, <1>6, <1>7, <1>8, <1>9, <1>10, <1>11, <1>12, NoClear
      DEF AloneStep, Upsert

(* A file that some book shows is shown after a step that keeps the files. *)
LEMMA ShownStays ==
  ASSUME FilesStay, NEW f \in Paths, Shown(f), ~ (Busy /\ f \notin scan.seen)
  PROVE  Shown(f)'
  <1>1. PICK b \in Rows : Holds(b, f)
    BY DEF Shown, BookAt, Holds, LocsOf
  <1>2. PICK k \in Rows' : Holds(k, f)'
    BY <1>1 DEF FilesStay
  <1>3. CASE books'[k].file = f
    BY <1>2, <1>3 DEF Shown, BookAt
  <1>4. CASE f \in Located' /\ locs'[f].book = k
    BY <1>2, <1>4 DEF Shown
  <1> QED BY <1>2, <1>3, <1>4 DEF Holds, LocsOf

(* In the walk: only the file the scanner is at has to be looked at.       *)
LEMMA WalkKeepsQuiet ==
  ASSUME Sound, QuietScan(op[Scanner]), FilesStay, scan' = scan, disk' = disk,
         scan.phase = "walk", NEW g, op[Scanner].file = g,
         NEW r, g \in OnDisk => Shown(g)' \/ (r.pc \in Visiting /\ r.file = g)
  PROVE  QuietScan(r)'
  <1> DEFINE o == op[Scanner]
  <1>1. OnDisk' = OnDisk /\ Busy
    BY DEF OnDisk, Busy
  <1> SUFFICES ASSUME scan.quiet, NEW f \in OnDisk
               PROVE  InSight(f)' /\ (Shown(f)' \/ Due(f, r)')
    BY <1>1 DEF QuietScan
  <1>2. InSight(f) /\ (Shown(f) \/ Due(f, o)) /\ f \in Paths
    BY <1>1 DEF QuietScan, OnDisk
  <1>3. InSight(f)'
    BY <1>2 DEF InSight
  <1>4. CASE f[1] \in scan.roots \/ f \in scan.todo
    BY <1>3, <1>4 DEF Due
  <1>5. CASE f = g
    BY <1>3, <1>5 DEF Due
  <1>6. CASE f \in scan.seen /\ Shown(f)
    BY <1>2, <1>3, <1>6, ShownStays
  <1> QED BY <1>2, <1>3, <1>4, <1>5, <1>6 DEF InSight, Due

(* After the walk: whatever is on disk has been seen and is shown.         *)
LEMMA LaterKeepsQuiet ==
  ASSUME Sound, Alone, QuietScan(op[Scanner]), FilesStay, disk' = disk,
         scan.phase \notin {"idle", "walk"}, scan'.quiet => scan.quiet,
         scan'.phase # "idle" => scan'.seen = scan.seen
  PROVE  QuietScan(op[Scanner])'
  <1> SUFFICES ASSUME scan'.phase # "idle", scan'.quiet, NEW f \in OnDisk
               PROVE  InSight(f)' /\ Shown(f)'
    BY DEF QuietScan, OnDisk, Busy
  <1>1. op[Scanner].pc \notin Visiting
    BY DEF Alone, ScannerKnows, PhaseFits
  <1>2. f \in scan.seen /\ Shown(f) /\ f \in Paths
    BY <1>1 DEF QuietScan, Busy, InSight, Due, OnDisk
  <1>3. Shown(f)'
    BY <1>2, ShownStays
  <1> QED BY <1>2, <1>3 DEF InSight

LEMMA UpsertKeepsQuiet ==
  ASSUME Undisturbed, Sound, Alone, Kept, FilesStay, Upsert(Scanner)
  PROVE  QuietScan(op[Scanner])'
  <1> DEFINE o == op[Scanner]
  <1>0. PICK f : f = o.file
    OBVIOUS
  <1>1. /\ scan.phase = "walk" /\ scan' = scan /\ disk' = disk
        /\ o \in Op /\ f \in Paths /\ o.pc \in Visiting
    <2>1. o.pc \in Visiting /\ scan' = scan /\ disk' = disk
      BY DEF Upsert, UpsertLocation, UpsertRefresh, UpsertLookBook, UpsertUpdate, UpsertFind,
             UpsertAttach, UpsertInsert, At, Visiting, env
    <2> QED BY <1>0, <2>1, OpAtHand, ScannerIsProc
            DEF Sound, Alone, ScannerKnows, PhaseFits, Visiting, HasFile
  <1>2. ASSUME NEW r, Step(Scanner, r),
               f \in OnDisk => Shown(f)' \/ (r.pc \in Visiting /\ r.file = f)
        PROVE  QuietScan(op[Scanner])'
    <2>1. QuietScan(r)'
      BY <1>0, <1>1, <1>2, WalkKeepsQuiet DEF Kept
    <2>2. op'[Scanner] = r
      BY <1>2, ScannerMoves
    <2> QED BY <2>1, <2>2 DEF QuietScan, Due
  <1>3. ASSUME Return(Scanner), f \in OnDisk => Shown(f)' PROVE QuietScan(op[Scanner])'
    BY <1>2, <1>3 DEF Return
  <1>4. ASSUME NEW r, Step(Scanner, r), r.pc \in Visiting, r.file = f
        PROVE  QuietScan(op[Scanner])'
    BY <1>2, <1>4
  <1>5. ASSUME UNCHANGED <<books, locs>>, Shown(f) PROVE Shown(f)'
    BY <1>5 DEF Shown, BookAt, Rows, Located
  <1>6. CASE UpsertLocation(Scanner)
    <2>1. UNCHANGED <<books, locs>>
      BY <1>6 DEF UpsertLocation, db
    <2>2. CASE Return(Scanner) /\ (f \notin OnDisk \/ f \in Located)
      <3>1. f \in OnDisk => Shown(f)
        BY <2>2 DEF Kept, LocationsHaveBooks, Shown
      <3> QED BY <1>3, <1>5, <2>1, <2>2, <3>1
    <2>3. ASSUME NEW pc \in {"refresh", "lookBook"},
                 Step(Scanner, [o EXCEPT !.pc = pc, !.stamp = disk[f].stamp])
          PROVE  QuietScan(op[Scanner])'
      <3> DEFINE r == [o EXCEPT !.pc = pc, !.stamp = disk[f].stamp]
      <3>1. r.pc \in Visiting /\ r.file = f /\ Step(Scanner, r)
        BY <1>0, <1>1, <2>3 DEF Op, Visiting
      <3> HIDE DEF r, o
      <3> QED BY <1>4, <3>1
    <2> QED BY <1>0, <1>6, <2>2, <2>3 DEF UpsertLocation
  <1>7. CASE UpsertRefresh(Scanner)
    <2>1. f \in Located /\ Return(Scanner)
      BY <1>0, <1>7 DEF Kept, VisitHolds, UpsertRefresh, At
    <2>2. Shown(f)'
      BY <1>7, <2>1, UpsertRefreshGrows DEF Kept, LocationsHaveBooks, TablesGrow, Shown
    <2> QED BY <1>3, <2>1, <2>2
  <1>8. CASE UpsertLookBook(Scanner)
    <2> DEFINE t == ParseFile(f)
    <2>1. UNCHANGED <<books, locs>>
      BY <1>8 DEF UpsertLookBook, db
    <2>2. ASSUME NEW b \in BookAt(f), Return(Scanner) PROVE QuietScan(op[Scanner])'
      <3>1. Shown(f)
        BY <2>2 DEF Shown
      <3> QED BY <1>3, <1>5, <2>1, <2>2, <3>1
    <2>3. ASSUME NEW pc \in {"insert", "find"}, Step(Scanner, [o EXCEPT !.pc = pc, !.title = t])
          PROVE  QuietScan(op[Scanner])'
      <3> DEFINE r == [o EXCEPT !.pc = pc, !.title = t]
      <3>1. r.pc \in Visiting /\ r.file = f /\ Step(Scanner, r)
        BY <1>0, <1>1, <2>3 DEF Op, Visiting
      <3> HIDE DEF r, o
      <3> QED BY <1>4, <3>1
    <2>4. ASSUME NEW b, Step(Scanner, [o EXCEPT !.pc = "update", !.title = t, !.book = b])
          PROVE  QuietScan(op[Scanner])'
      <3> DEFINE r == [o EXCEPT !.pc = "update", !.title = t, !.book = b]
      <3>1. r.pc \in Visiting /\ r.file = f /\ Step(Scanner, r)
        BY <1>0, <1>1, <2>4 DEF Op, Visiting
      <3> HIDE DEF r, o
      <3> QED BY <1>4, <3>1
    <2> QED BY <1>0, <1>8, <2>2, <2>3, <2>4 DEF UpsertLookBook
  <1>9. CASE UpsertFind(Scanner)
    <2>1. ASSUME Step(Scanner, [o EXCEPT !.pc = "insert"]) PROVE QuietScan(op[Scanner])'
      <3> DEFINE r == [o EXCEPT !.pc = "insert"]
      <3>1. r.pc \in Visiting /\ r.file = f /\ Step(Scanner, r)
        BY <1>0, <1>1, <2>1 DEF Op, Visiting
      <3> HIDE DEF r, o
      <3> QED BY <1>4, <3>1
    <2>2. ASSUME NEW b, Step(Scanner, [o EXCEPT !.pc = "attach", !.book = b])
          PROVE  QuietScan(op[Scanner])'
      <3> DEFINE r == [o EXCEPT !.pc = "attach", !.book = b]
      <3>1. r.pc \in Visiting /\ r.file = f /\ Step(Scanner, r)
        BY <1>0, <1>1, <2>2 DEF Op, Visiting
      <3> HIDE DEF r, o
      <3> QED BY <1>4, <3>1
    <2> QED BY <1>9, <2>1, <2>2 DEF UpsertFind
  <1>10. CASE UpsertAttach(Scanner)
    <2>1. o.book \in Rows /\ Return(Scanner)
      BY <1>10 DEF Kept, VisitHolds, UpsertAttach, At
    <2>2. Shown(f)'
      BY <1>0, <1>10, <2>1, UpsertAttachGrows DEF Shown
    <2> QED BY <1>3, <2>1, <2>2
  <1>11. CASE UpsertInsert(Scanner)
    <2>1. Return(Scanner)
      BY <1>11 DEF UpsertInsert
    <2>2. Shown(f)'
      BY <1>0, <1>11, UpsertInsertGrows DEF Shown, BookAt
    <2> QED BY <1>3, <2>1, <2>2
  <1>12. CASE UpsertUpdate(Scanner)
    <2>1. Return(Scanner) /\ o.book \in Rows /\ books[o.book].file = f
      BY <1>0, <1>12 DEF UpsertUpdate, At, Kept, VisitHolds, Alone, ScannerKnows, VisitKnows
    <2>2. Shown(f)'
      BY <1>12, <2>1, UpsertUpdateAlone DEF Shown, BookAt
    <2> QED BY <1>3, <2>1, <2>2
  <1> QED BY <1>6, <1>7, <1>8, <1>9, <1>10, <1>11, <1>12 DEF Upsert

LEMMA ScanKeepsQuiet ==
  ASSUME Undisturbed, Sound, Alone, Kept, FilesStay, ScanSteps
  PROVE  QuietScan(op[Scanner])'
  <1>1. scan \in Scans
    BY DEF Sound, SoundScan
  <1>2. CASE ScanStart
    <2>1. scan'.phase = "walk" /\ scan'.roots = Roots
      BY <1>2 DEF ScanStart, NoScan
    <2> QED BY <2>1 DEF QuietScan, InSight, Due, OnDisk, Paths
  <1>3. CASE ScanList
    <2> DEFINE r == First(scan.roots)
               L == {f \in OnDisk : f[1] = r}
    <2>1. /\ scan.phase = "walk" /\ scan.todo = {} /\ op[Scanner].pc = "idle"
          /\ op' = op /\ disk' = disk /\ UNCHANGED <<books, locs>>
          /\ scan' = [scan EXCEPT !.roots = @ \ {r}, !.todo = L, !.seen = @ \cup L]
      BY <1>3 DEF ScanList, Scanning, At, env, db
    <2>2. /\ scan'.phase = "walk" /\ scan'.roots = scan.roots \ {r} /\ scan'.todo = L
          /\ scan'.seen = scan.seen \cup L /\ scan'.quiet = scan.quiet
      BY <1>1, <2>1 DEF Scans
    <2> SUFFICES ASSUME scan.quiet, NEW f \in OnDisk
                 PROVE  InSight(f)' /\ (Shown(f)' \/ Due(f, op[Scanner])')
      BY <2>1, <2>2 DEF QuietScan, OnDisk
    <2>3. InSight(f) /\ (Shown(f) \/ f[1] \in scan.roots)
      BY <2>1 DEF Kept, QuietScan, Busy, Due, Visiting
    <2>4. Shown(f) => Shown(f)'
      BY <2>1 DEF Shown, BookAt, Rows, Located
    <2>5. f[1] \in scan.roots => f \in L \/ f[1] \in scan.roots \ {r}
      OBVIOUS
    <2> HIDE DEF r, L
    <2> QED BY <2>1, <2>2, <2>3, <2>4, <2>5 DEF InSight, Due
  <1>4. CASE ScanVisit
    <2> DEFINE g == FirstIn(scan.todo)
               visit == [Idle EXCEPT !.pc = "stat", !.file = g]
    <2>1. /\ scan.phase = "walk" /\ op[Scanner].pc = "idle"
          /\ disk' = disk /\ UNCHANGED <<books, locs>>
          /\ scan' = [scan EXCEPT !.todo = @ \ {g}] /\ Step(Scanner, visit)
      BY <1>4 DEF ScanVisit, Scanning, At, env, db
    <2>2. /\ scan'.phase = "walk" /\ scan'.roots = scan.roots /\ scan'.todo = scan.todo \ {g}
          /\ scan'.seen = scan.seen /\ scan'.quiet = scan.quiet
      BY <1>1, <2>1 DEF Scans
    <2>3. visit.pc \in Visiting /\ visit.file = g
      BY DEF Visiting, Idle
    <2> HIDE DEF visit, g
    <2>4. op'[Scanner] = visit
      BY <2>1, ScannerMoves
    <2> SUFFICES ASSUME scan.quiet, NEW f \in OnDisk
                 PROVE  InSight(f)' /\ (Shown(f)' \/ Due(f, op[Scanner])')
      BY <2>1, <2>2 DEF QuietScan, OnDisk
    <2>5. InSight(f) /\ (Shown(f) \/ f[1] \in scan.roots \/ f \in scan.todo)
      BY <2>1 DEF Kept, QuietScan, Busy, Due, Visiting
    <2>6. Shown(f) => Shown(f)'
      BY <2>1 DEF Shown, BookAt, Rows, Located
    <2> QED BY <2>1, <2>2, <2>3, <2>4, <2>5, <2>6 DEF InSight, Due
  <1>5. CASE ScanListStale
    <2>1. /\ scan.phase = "walk" /\ scan.todo = {} /\ scan.roots = {} /\ op[Scanner].pc = "idle"
          /\ disk' = disk /\ UNCHANGED <<books, locs>>
          /\ scan'.seen = scan.seen /\ scan'.quiet = scan.quiet
      BY <1>1, <1>5 DEF ScanListStale, Scanning, At, env, db, Scans
    <2> SUFFICES ASSUME scan.quiet, NEW f \in OnDisk PROVE InSight(f)' /\ Shown(f)'
      BY <2>1 DEF QuietScan, OnDisk
    <2>2. f \in scan.seen /\ Shown(f)
      BY <2>1 DEF Kept, QuietScan, Busy, InSight, Due, Visiting
    <2>3. Shown(f)'
      BY <2>1, <2>2 DEF Shown, BookAt, Rows, Located
    <2> QED BY <2>1, <2>2, <2>3 DEF InSight
  <1>6. ASSUME NEW b \in Ids, ScanPrune(b) PROVE QuietScan(op[Scanner])'
    BY <1>1, <1>6, LaterKeepsQuiet DEF Kept, ScanPrune, Scanning, Scans, env
  <1>7. CASE ScanListLocations \/ ScanListTitles
    BY <1>1, <1>7, LaterKeepsQuiet DEF Kept, ScanListLocations, ScanListTitles, Scanning, Scans, env
  <1>8. ASSUME NEW f \in Paths, ScanPruneLocation(f) PROVE QuietScan(op[Scanner])'
    BY <1>1, <1>8, LaterKeepsQuiet DEF Kept, ScanPruneLocation, Scanning, Scans, env
  <1>9. ASSUME NEW g \in scan.groups, ScanPick(g) PROVE QuietScan(op[Scanner])'
    <2>1. scan.phase = "merge" /\ disk' = disk
      BY <1>9 DEF ScanPick, Scanning, env
    <2>2. \/ scan'.phase = "idle" /\ scan'.quiet = FALSE
          \/ scan'.seen = scan.seen /\ scan'.quiet = scan.quiet
      BY <1>1, <1>9 DEF ScanPick, NoScan, Scans
    <2> QED BY <2>1, <2>2, LaterKeepsQuiet DEF Kept
  <1>10. CASE ScanFinish
    BY <1>10 DEF ScanFinish, NoScan, QuietScan, Busy
  <1> QED BY <1>2, <1>3, <1>4, <1>5, <1>6, <1>7, <1>8, <1>9, <1>10 DEF ScanSteps

LEMMA QuietKept ==
  ASSUME Undisturbed, MaxClears = 0, Sound, Alone, Kept, [Next]_vars
  PROVE  QuietScan(op[Scanner])'
  <1>1. (AloneStep \/ UNCHANGED vars) /\ FilesStay
    BY OnlyAloneSteps, StepKeepsFiles, NoClear
  <1>2. CASE RemoveReadLocs(Scanner) \/ RemoveBook(Scanner)
    <2>1. scan.phase = "prune"
      BY <1>2, PruneAtHand DEF RemoveReadLocs, RemoveBook, At, Pruning
    <2> QED BY <1>1, <1>2, <2>1, LaterKeepsQuiet DEF Kept, RemoveReadLocs, RemoveBook, env
  <1>3. CASE Promote(Scanner)
    <2>1. scan.phase = "prune" /\ scan' = scan
      BY <1>3, PruneAtHand, PromoteShape DEF Promote, At, Pruning
    <2> QED BY <1>1, <1>3, <2>1, LaterKeepsQuiet DEF Kept, Promote, env
  <1>4. CASE MergeBooks(Scanner)
    <2>1. scan.phase = "merge" /\ scan' = scan
      BY <1>4, MergeShape
    <2> QED BY <1>1, <1>4, <2>1, LaterKeepsQuiet DEF Kept, MergeBooks, env
  <1>5. CASE \E f \in Paths : (\E t \in Contents : WriteFile(f, t)) \/ RemoveFile(f)
    <2>1. scan'.quiet = FALSE
      BY <1>5 DEF WriteFile, RemoveFile, Disturb, Sound, SoundScan, Scans
    <2> QED BY <2>1 DEF QuietScan
  <1>6. CASE \/ \E b \in Ids, s \in Shelves : AddBookToShelf(s, b)
             \/ RequestScan \/ ClearEnqueue \/ UNCHANGED vars
    <2>1. UNCHANGED <<disk, books, locs, op, scan>>
      BY <1>6 DEF AddBookToShelf, RequestScan, ClearEnqueue, env, db, vars
    <2> QED BY <2>1 DEF Kept, QuietScan, Busy, OnDisk, InSight, Due, Shown, BookAt, Rows, Located
  <1>7. CASE Crash
    BY <1>7 DEF Crash, NoScan, QuietScan, Busy
  <1> QED BY <1>1, <1>2, <1>3, <1>4, <1>5, <1>6, <1>7, UpsertKeepsQuiet, ScanKeepsQuiet, NoClear
      DEF AloneStep

LEMMA KeptAlways ==
  ASSUME Undisturbed, MaxClears = 0
  PROVE  Spec => [](Sound /\ Alone /\ Kept)
  <1>1. Init => Sound /\ Alone /\ Kept
    <2>1. Init => Kept
      BY ScannerIsProc DEF Init, Kept, LocationsHaveBooks, VisitHolds, QuietScan, Busy, Located,
         NoScan, Idle
    <2> QED BY <2>1, InitSound, InitAlone
  <1>2. Sound /\ Alone /\ Kept /\ [Next]_vars => (Sound /\ Alone /\ Kept)'
    BY StepSound, StepAlone, LocationsKept, VisitHoldsKept, QuietKept DEF Kept
  <1> QED BY <1>1, <1>2, PTL DEF Spec

(* Every location has its book: a removal first promotes a location, and a *)
(* merge gives the locations of the book that goes to the one that stays.  *)
THEOREM LocationsKeepBooks ==
  ASSUME Undisturbed, MaxClears = 0
  PROVE  Spec => []LocationsHaveBooks
  <1>1. Sound /\ Alone /\ Kept => LocationsHaveBooks
    BY DEF Kept
  <1> QED BY <1>1, KeptAlways, PTL

(* A scan that nothing interfered with ends with every file on disk        *)
(* reachable from some book.                                               *)
THEOREM QuietScansAreComplete ==
  ASSUME Undisturbed, MaxClears = 0
  PROVE  Spec => []QuietScanIsComplete
  <1>1. Sound /\ Alone /\ Kept => QuietScanIsComplete
    BY DEF Kept, QuietScan, QuietScanIsComplete, ScanDone, Scanning, At, Busy, Due, Visiting
  <1> QED BY <1>1, KeptAlways, PTL

(* A book is deleted outright only when it has no location left: with the  *)
(* scan alone nobody adds one between the read and the delete.             *)
THEOREM DeletesSpareLocations ==
  ASSUME Undisturbed
  PROVE  Spec => DeletesOnlyWithoutLocations
  <1>1. Sound /\ Alone =>
          \A p \in Procs : At(p, "deleteBook") /\ op[p].book \in Rows => LocsOf(op[p].book) = {}
    BY DEF At, Alone, OthersRest, Idle, ScannerKnows, PruneKnows
  <1>2. Sound /\ Alone /\ [Next]_vars =>
          [\A p \in Procs :
             At(p, "deleteBook") /\ op[p].book \in Rows /\ op[p].book \notin Rows'
               => LocsOf(op[p].book) = {}]_vars
    BY <1>1
  <1> QED BY <1>2, AloneAlways, PTL DEF Spec, DeletesOnlyWithoutLocations
=============================================================================
