---------------------------- MODULE LibraryIndex ----------------------------
(***************************************************************************)
(* The derived library index: the tables books, book_locations,            *)
(* book_enrichment and shelf_books, and what writes them while the files   *)
(* on disk change: the library scan (scan.go), the callbacks of the        *)
(* filesystem watcher (watch.go), the merges of duplicates (dedup.go), the *)
(* enrichment queue's ISBN merge, and the admin's "clear library".         *)
(*                                                                         *)
(* Every statement, or transaction, on the database is a step of its own;  *)
(* a read of a file is joined to the statement next to it, with which it   *)
(* commutes.  A path is a pair <<index of its library root, name>>; the    *)
(* size and mtime of a file are a stamp, which a write renews or leaves    *)
(* like an earlier one, since mtimes count whole seconds; the normalised   *)
(* title and author are one value, its title.                              *)
(***************************************************************************)
EXTENDS Naturals, FiniteSets

CONSTANTS
  Roots,       \* indices of the configured library roots
  Names,       \* relative paths of EPUB files, numbered in walk order
  Titles,      \* the (title, author) pairs that can be matched
  Broken,      \* what is parsed from an unreadable file, or a blank author
  ISBNs,       \* the ISBNs the enrichment providers return
  Shelves,     \* shelves the readers keep
  Callbacks,   \* goroutines in which the watcher's timers fire
  Watched,     \* the paths whose directory is being watched
  NoRow,       \* no such row, or no such file
  MaxBooks,    \* bound on the ids given out by books.id AUTOINCREMENT
  MaxChanges,  \* bound on the changes to files
  MaxLike,     \* bound on the writes that leave a stamp like an earlier one
  MaxScans,    \* bound on the scans started
  MaxClears,   \* bound on the clears
  MaxCrashes   \* bound on the restarts

Paths == Roots \X Names
Ids   == 1 .. MaxBooks

ASSUME IndexAssumption ==
  /\ Roots \subseteq Nat /\ Names \subseteq Nat
  /\ Broken \notin Titles
  /\ Watched \subseteq Paths
  /\ MaxBooks \in Nat /\ MaxChanges \in Nat /\ MaxLike \in Nat
  /\ MaxScans \in Nat /\ MaxClears \in Nat /\ MaxCrashes \in Nat

VARIABLES
  disk,        \* the files: path -> stamp and content
  changes,     \* changes made to the files so far; no stamp is greater
  likes,       \* writes so far that left a stamp like an earlier one
  timer,       \* Watcher.timers: the pending timer of each path
  loose,       \* pending timers whose entry has been deleted from that map
  firing,      \* the path whose timer each callback goroutine serves
  books,       \* table books
  nextId,      \* the next id of books
  issued,      \* the ids that books have had (not in the code)
  locs,        \* table book_locations: path -> book_id and stamp
  enr,         \* table book_enrichment: book_id -> isbn
  shelf,       \* table shelf_books: pairs of a shelf and a book_id
  op,          \* the per-file operation each goroutine is in
  scan,        \* the scan in progress
  queued,      \* is a "rescan" run queued?
  clear,       \* the admin's clear request: has it yet to enqueue a scan?
  owed,        \* a clear since the last start of a scan
  used         \* scans, clears and restarts so far

db   == <<books, nextId, issued, locs, enr, shelf>>
env  == <<disk, changes, likes, timer, loose, firing>>
ctl  == <<queued, clear, owed, used>>
vars == <<disk, changes, likes, timer, loose, firing, books, nextId, issued, locs,
          enr, shelf, op, scan, queued, clear, owed, used>>

Contents == Titles \cup {Broken}
Scanner  == "scanner"
Enricher == "enricher"
Kinds    == {"upsert", "delete"}   \* of timers: what the event asked for
Procs    == {Scanner, Enricher} \cup Callbacks

(* own (not a column): the metadata was parsed from the canonical file.    *)
Book == [file : Paths, stamp : Nat, title : Contents, own : BOOLEAN]
Loc  == [book : Ids, stamp : Nat]

(* like (not the file's): the last write left a stamp that it may have had *)
(* before, with other contents.                                            *)
File == [stamp : Nat, title : Contents, like : BOOLEAN]

ASSUME NoRowAssumption == NoRow \notin Book /\ NoRow \notin Loc

Rows      == {b \in Ids : books[b] # NoRow}
Located   == {f \in Paths : locs[f] # NoRow}
BookAt(f) == {b \in Rows : books[b].file = f}
LocsOf(b) == {f \in Located : locs[f].book = b}
OnDisk    == {f \in Paths : disk[f] # NoRow}

(* The operation a goroutine is in: pc, and the values it has read.        *)
Op == [pc    : {"idle", "stat", "refresh", "lookBook", "find", "attach", "insert", "update",
                "lookGone", "unlocate", "locs", "deleteBook", "promote",
                "pickIsbn", "merge"},
       file  : Paths \cup {NoRow},
       stamp : Nat,
       title : Contents,
       book  : Ids \cup {0},
       drop  : Ids \cup {0}]

Idle == [pc |-> "idle", file |-> NoRow, stamp |-> 0, title |-> Broken,
         book |-> 0, drop |-> 0]

(* The scan: the roots it has yet to list, the paths and rows it has still  *)
(* to visit in its phase, the duplicates found, and the paths it has seen. *)
(* quiet (not in the code): nothing else has run since the scan started.   *)
Group == [keep : Ids, rest : SUBSET Ids]
Scans == [phase  : {"idle", "walk", "prune", "locations", "merge"},
          roots  : SUBSET Roots,
          todo   : SUBSET Paths,
          stale  : SUBSET Ids,
          groups : SUBSET Group,
          seen   : SUBSET Paths,
          quiet  : BOOLEAN]

NoScan == [phase |-> "idle", roots |-> {}, todo |-> {}, stale |-> {},
           groups |-> {}, seen |-> {}, quiet |-> FALSE]

Init ==
  /\ disk = [f \in Paths |-> NoRow] /\ changes = 0 /\ likes = 0
  /\ timer = [f \in Paths |-> "none"] /\ loose = {}
  /\ firing = [c \in Callbacks |-> NoRow]
  /\ books = [b \in Ids |-> NoRow] /\ nextId = 1 /\ issued = {}
  /\ locs = [f \in Paths |-> NoRow]
  /\ enr = [b \in Ids |-> NoRow]
  /\ shelf = {}
  /\ op = [p \in Procs |-> Idle]
  /\ scan = NoScan
  /\ queued = TRUE /\ clear = FALSE /\ owed = FALSE
  /\ used = [scans |-> 0, clears |-> 0, crashes |-> 0]

At(p, pc)   == op[p].pc = pc
Step(p, o)  == op' = [op EXCEPT ![p] = o]
Return(p)   == Step(p, Idle)

-----------------------------------------------------------------------------
(* The files, and the watcher: an event on a watched path stops the timer  *)
(* that the map holds for it and starts another; a timer that fires runs   *)
(* its callback in a goroutine of its own, which ends by deleting the map  *)
(* entry of the path, its own or that of a later event's timer.            *)

Notify(f, kind) ==
  /\ timer' = IF f \in Watched THEN [timer EXCEPT ![f] = kind] ELSE timer
  /\ UNCHANGED <<loose, firing>>

Disturb == scan' = [scan EXCEPT !.quiet = FALSE]

(* A write in the second of the one before, of a file as large, leaves     *)
(* size and mtime as they were; a copy may bring older ones back.          *)
WriteFile(f, t) ==
  /\ changes < MaxChanges
  /\ changes' = changes + 1
  /\ \/ /\ disk' = [disk EXCEPT ![f] = [stamp |-> changes + 1, title |-> t, like |-> FALSE]]
        /\ UNCHANGED likes
     \/ /\ likes < MaxLike /\ likes' = likes + 1
        /\ \E n \in 1 .. changes :
             disk' = [disk EXCEPT ![f] = [stamp |-> n, title |-> t, like |-> TRUE]]
  /\ Notify(f, "upsert")
  /\ Disturb
  /\ UNCHANGED <<db, op, ctl>>

RemoveFile(f) ==
  /\ changes < MaxChanges
  /\ f \in OnDisk
  /\ changes' = changes + 1
  /\ disk' = [disk EXCEPT ![f] = NoRow]
  /\ Notify(f, "delete")
  /\ Disturb
  /\ UNCHANGED <<likes, db, op, ctl>>

Fire(c, f, kind) ==
  /\ firing[c] = NoRow
  /\ \/ /\ timer[f] = kind
        /\ timer' = [timer EXCEPT ![f] = "none"] /\ UNCHANGED loose
     \/ <<f, kind>> \in loose /\ loose' = loose \ {<<f, kind>>} /\ UNCHANGED timer
  /\ firing' = [firing EXCEPT ![c] = f]
  /\ Step(c, [Idle EXCEPT !.pc = IF kind = "upsert" THEN "stat" ELSE "lookGone",
                          !.file = f])
  /\ Disturb
  /\ UNCHANGED <<disk, changes, likes, db, ctl>>

FireEnd(c) ==
  LET f == firing[c] IN
  /\ f # NoRow /\ At(c, "idle")
  /\ firing' = [firing EXCEPT ![c] = NoRow]
  /\ timer' = [timer EXCEPT ![f] = "none"]
  /\ loose' = IF timer[f] = "none" THEN loose ELSE loose \cup {<<f, timer[f]>>}
  /\ UNCHANGED <<disk, changes, likes, db, op, scan, ctl>>

-----------------------------------------------------------------------------
(* upsertIfChanged.  A file that is a known location of some book has its  *)
(* stamp refreshed and is never parsed again.                              *)

UpsertLocation(p) ==
  LET f == op[p].file IN
  /\ At(p, "stat")
  /\ IF f \notin OnDisk
     THEN Return(p)
     ELSE IF f \in Located /\ locs[f].stamp = disk[f].stamp
     THEN Return(p)
     ELSE Step(p, [op[p] EXCEPT !.pc = IF f \in Located THEN "refresh" ELSE "lookBook",
                                !.stamp = disk[f].stamp])
  /\ UNCHANGED <<env, db, scan, ctl>>

UpsertRefresh(p) ==
  LET f == op[p].file IN
  /\ At(p, "refresh")
  /\ Return(p)
  /\ locs' = IF f \in Located THEN [locs EXCEPT ![f].stamp = op[p].stamp] ELSE locs
  /\ UNCHANGED <<env, books, nextId, issued, enr, shelf, scan, ctl>>

(* A file that has gone by the time it is parsed is a parse error.         *)
ParseFile(f) == IF f \in OnDisk THEN disk[f].title ELSE Broken

UpsertLookBook(p) ==
  LET f == op[p].file
      t == ParseFile(f)
  IN
  /\ At(p, "lookBook")
  /\ \/ /\ BookAt(f) = {}
        /\ Step(p, [op[p] EXCEPT !.pc = IF t = Broken THEN "insert" ELSE "find",
                                 !.title = t])
     \/ \E b \in BookAt(f) :
          IF books[b].stamp = op[p].stamp
          THEN Return(p)
          ELSE Step(p, [op[p] EXCEPT !.pc = "update", !.title = t, !.book = b])
  /\ UNCHANGED <<env, db, scan, ctl>>

(* Mutant: stamps the row with the file's size and mtime after the parse.  *)
LateUpdate(p) ==
  /\ At(p, "update") /\ op[p].file \in OnDisk
  /\ Return(p)
  /\ books' = IF op[p].book \in Rows /\ books[op[p].book].file = op[p].file
              THEN [books EXCEPT ![op[p].book] =
                      [file |-> op[p].file, stamp |-> disk[op[p].file].stamp,
                       title |-> op[p].title, own |-> TRUE]]
              ELSE books
  /\ UNCHANGED <<env, nextId, issued, locs, enr, shelf, scan, ctl>>

(* UPDATE books ... WHERE id: the row may be gone, or may have been given  *)
(* another file since it was read; library_root is written, file_path not. *)
UpsertUpdate(p) ==
  LET b == op[p].book
      g == <<op[p].file[1], books[b].file[2]>>
  IN
  /\ At(p, "update")
  /\ Return(p)
  /\ IF b \in Rows /\ BookAt(g) \subseteq {b}
     THEN books' = [books EXCEPT ![b] = [file  |-> g,
                                         stamp |-> op[p].stamp,
                                         title |-> op[p].title,
                                         own   |-> books[b].file = op[p].file]]
     ELSE UNCHANGED books
  /\ UNCHANGED <<env, nextId, issued, locs, enr, shelf, scan, ctl>>

UpsertFind(p) ==
  LET same == {b \in Rows : books[b].title = op[p].title} IN
  /\ At(p, "find")
  /\ \/ same = {} /\ Step(p, [op[p] EXCEPT !.pc = "insert"])
     \/ \E b \in same : Step(p, [op[p] EXCEPT !.pc = "attach", !.book = b])
  /\ UNCHANGED <<env, db, scan, ctl>>

(* Mutant: attaches the file to an id that was never looked up.            *)
AttachToNothing(p) ==
  /\ At(p, "attach")
  /\ Return(p)
  /\ locs' = [locs EXCEPT ![op[p].file] = [book |-> op[p].drop, stamp |-> op[p].stamp]]
  /\ UNCHANGED <<env, books, nextId, issued, enr, shelf, scan, ctl>>

(* insertLocation does not look whether the book it matched still exists;  *)
(* a second row for the path is a constraint error.                        *)
UpsertAttach(p) ==
  LET f == op[p].file IN
  /\ At(p, "attach")
  /\ Return(p)
  /\ locs' = IF f \in Located THEN locs
             ELSE [locs EXCEPT ![f] = [book |-> op[p].book, stamp |-> op[p].stamp]]
  /\ UNCHANGED <<env, books, nextId, issued, enr, shelf, scan, ctl>>

(* Mutant: stamps the new row with the file's size and mtime after the parse. *)
LateInsert(p) ==
  LET f == op[p].file IN
  /\ At(p, "insert") /\ f \in OnDisk /\ BookAt(f) = {} /\ nextId \in Ids
  /\ Return(p)
  /\ nextId' = nextId + 1 /\ issued' = issued \cup {nextId}
  /\ books' = [books EXCEPT ![nextId] = [file |-> f, stamp |-> disk[f].stamp,
                                         title |-> op[p].title, own |-> TRUE]]
  /\ UNCHANGED <<env, locs, enr, shelf, scan, ctl>>

UpsertInsert(p) ==
  LET f == op[p].file IN
  /\ At(p, "insert")
  /\ Return(p)
  /\ IF BookAt(f) = {}
     THEN /\ nextId \in Ids
          /\ nextId' = nextId + 1
          /\ issued' = issued \cup {nextId}
          /\ books' = [books EXCEPT ![nextId] = [file  |-> f,
                                                 stamp |-> op[p].stamp,
                                                 title |-> op[p].title,
                                                 own   |-> TRUE]]
     ELSE UNCHANGED <<books, nextId, issued>>
  /\ UNCHANGED <<env, locs, enr, shelf, scan, ctl>>

Upsert(p) ==
  \/ UpsertLocation(p) \/ UpsertRefresh(p) \/ UpsertLookBook(p) \/ UpsertUpdate(p)
  \/ UpsertFind(p) \/ UpsertAttach(p) \/ UpsertInsert(p)

-----------------------------------------------------------------------------
(* DeleteByPath and removeCanonicalFile.  Only the scan knows which paths  *)
(* it has seen; the watcher's callback prefers none.                       *)

DeleteLookup(p) ==
  /\ At(p, "lookGone")
  /\ \/ BookAt(op[p].file) = {} /\ Step(p, [op[p] EXCEPT !.pc = "unlocate"])
     \/ \E b \in BookAt(op[p].file) :
          Step(p, [op[p] EXCEPT !.pc = "locs", !.book = b, !.file = NoRow])
  /\ UNCHANGED <<env, db, scan, ctl>>

DeleteLocation(p) ==
  /\ At(p, "unlocate")
  /\ Return(p)
  /\ locs' = [locs EXCEPT ![op[p].file] = NoRow]
  /\ UNCHANGED <<env, books, nextId, issued, enr, shelf, scan, ctl>>

Seen(p) == IF p = Scanner THEN scan.seen ELSE {}

(* Mutant: promotes only a location the scan has seen.                     *)
RemoveReadSeen(p) ==
  LET L == LocsOf(op[p].book) \cap Seen(p) IN
  /\ At(p, "locs")
  /\ \/ L = {} /\ Step(p, [op[p] EXCEPT !.pc = "deleteBook"])
     \/ \E f \in L : Step(p, [op[p] EXCEPT !.pc = "promote", !.file = f,
                                           !.stamp = locs[f].stamp])
  /\ UNCHANGED <<env, db, scan, ctl>>

(* The rows are ordered by added_at, in seconds: any of those that qualify *)
(* may come first.                                                         *)
RemoveReadLocs(p) ==
  LET L == LocsOf(op[p].book) IN
  /\ At(p, "locs")
  /\ \/ L = {} /\ Step(p, [op[p] EXCEPT !.pc = "deleteBook"])
     \/ \E f \in L :
          /\ L \cap Seen(p) # {} => f \in Seen(p)
          /\ Step(p, [op[p] EXCEPT !.pc = "promote", !.file = f,
                                   !.stamp = locs[f].stamp])
  /\ UNCHANGED <<env, db, scan, ctl>>

(* The rows of book_enrichment and shelf_books stay: foreign keys are not  *)
(* enabled on the connection, and nothing else deletes them.               *)
RemoveBook(p) ==
  /\ At(p, "deleteBook")
  /\ Return(p)
  /\ books' = [books EXCEPT ![op[p].book] = NoRow]
  /\ UNCHANGED <<env, nextId, issued, locs, enr, shelf, scan, ctl>>

(* Mutant: promotes a location and keeps its row.                          *)
PromoteOnly(p) ==
  LET b == op[p].book IN
  /\ At(p, "promote") /\ b \in Rows
  /\ Return(p)
  /\ books' = [books EXCEPT ![b].file = op[p].file, ![b].stamp = op[p].stamp]
  /\ UNCHANGED <<env, nextId, issued, locs, enr, shelf, scan, ctl>>

(* One transaction; when the path already has a books row it is rolled     *)
(* back, and the error ends a scan.                                        *)
Promote(p) ==
  LET b == op[p].book
      f == op[p].file
  IN
  /\ At(p, "promote")
  /\ Return(p)
  /\ IF b \in Rows /\ ~ BookAt(f) \subseteq {b}
     THEN /\ scan' = IF p = Scanner THEN NoScan ELSE scan
          /\ UNCHANGED <<books, locs>>
     ELSE /\ books' = IF b \in Rows
                      THEN [books EXCEPT ![b].file = f, ![b].stamp = op[p].stamp,
                                         ![b].own = FALSE]
                      ELSE books
          /\ locs' = [locs EXCEPT ![f] = NoRow]
          /\ UNCHANGED scan
  /\ UNCHANGED <<env, nextId, issued, enr, shelf, ctl>>

Remove(p) ==
  \/ DeleteLookup(p) \/ DeleteLocation(p)
  \/ RemoveReadLocs(p) \/ RemoveBook(p) \/ Promote(p)

-----------------------------------------------------------------------------
(* Merges.  pickCanonical fails when either row is gone; MergeBooks is one *)
(* transaction, which looks for the row to drop and not for the other.     *)

Wins(a, b) == \/ books[a].file[1] < books[b].file[1]
              \/ books[a].file[1] = books[b].file[1] /\ a < b

Picked(a, b) == IF Wins(a, b) THEN [Idle EXCEPT !.pc = "merge", !.book = a, !.drop = b]
                              ELSE [Idle EXCEPT !.pc = "merge", !.book = b, !.drop = a]

(* Mutant: forgets the canonical file of the book that is dropped.         *)
MoveLocs(keep, drop) ==
  [f \in Paths |-> IF f \in LocsOf(drop) THEN [locs[f] EXCEPT !.book = keep] ELSE locs[f]]

MergeLocs(keep, drop) ==
  [f \in Paths |->
     IF f = books[drop].file /\ f \notin Located
     THEN [book |-> keep, stamp |-> books[drop].stamp]
     ELSE IF f \in LocsOf(drop) THEN [locs[f] EXCEPT !.book = keep]
     ELSE locs[f]]

(* Mutant: the shelf loses the dropped book.                               *)
DropFromShelf(keep, drop) == {x \in shelf : x[2] # drop}

MergeShelf(keep, drop) ==
  {<<x[1], IF x[2] = drop THEN keep ELSE x[2]>> : x \in shelf}

MergeBooks(p) ==
  LET keep == op[p].book
      drop == op[p].drop
  IN
  /\ At(p, "merge")
  /\ Return(p)
  /\ IF drop \in Rows
     THEN /\ locs' = MergeLocs(keep, drop)
          /\ shelf' = MergeShelf(keep, drop)
          /\ books' = [books EXCEPT ![drop] = NoRow]
     ELSE UNCHANGED <<locs, shelf, books>>
  /\ UNCHANGED <<env, nextId, issued, enr, scan, ctl>>

(* The enrichment queue fills in an ISBN, in a transaction that fails when *)
(* the book is gone, and then looks for another enrichment row that has    *)
(* the same ISBN.                                                          *)
ApplyEnrichment(b, i) ==
  /\ At(Enricher, "idle")
  /\ b \in Rows /\ enr[b] = NoRow
  /\ enr' = [enr EXCEPT ![b] = i]
  /\ Step(Enricher, [Idle EXCEPT !.pc = "pickIsbn", !.book = b])
  /\ Disturb
  /\ UNCHANGED <<env, books, nextId, issued, locs, shelf, ctl>>

SameIsbn(b) == {o \in Ids \ {b} : enr[o] # NoRow /\ enr[o] = enr[b]}

MergeDuplicateISBN ==
  LET b == op[Enricher].book IN
  /\ At(Enricher, "pickIsbn")
  /\ \/ (enr[b] = NoRow \/ SameIsbn(b) = {}) /\ Return(Enricher)
     \/ /\ enr[b] # NoRow
        /\ \E o \in SameIsbn(b) :
             IF {b, o} \subseteq Rows THEN Step(Enricher, Picked(b, o))
                                      ELSE Return(Enricher)
  /\ UNCHANGED <<env, db, scan, ctl>>

(* A reader puts a book on the shelf: nothing asks whether there is a book *)
(* of that id, still or yet, and the table has no foreign key in force.    *)
AddBookToShelf(s, b) ==
  /\ <<s, b>> \notin shelf
  /\ shelf' = shelf \cup {<<s, b>>}
  /\ UNCHANGED <<env, books, nextId, issued, locs, enr, op, scan, ctl>>

-----------------------------------------------------------------------------
(* The scan, run by the task worker: walk, prune, consolidate.             *)

Busy == scan.phase # "idle"

Scanning(phase) == scan.phase = phase /\ At(Scanner, "idle")

First(S)    == CHOOSE n \in S : \A m \in S : n <= m
FirstIn(T)  == LET r == First({f[1] : f \in T})
               IN <<r, First({f[2] : f \in {g \in T : g[1] = r}})>>

ScanStart ==
  /\ queued /\ ~ Busy /\ used.scans < MaxScans
  /\ queued' = FALSE /\ owed' = FALSE
  /\ used' = [used EXCEPT !.scans = @ + 1]
  /\ scan' = [NoScan EXCEPT !.phase = "walk", !.roots = Roots,
                            !.quiet = \A p \in Procs : At(p, "idle")]
  /\ UNCHANGED <<env, db, op, clear>>

(* WalkDir reads a directory at once and then visits its entries in order; *)
(* a root is one directory.  A listed file counts as seen even when it is  *)
(* gone by the time it is visited.                                         *)
ScanList ==
  /\ Scanning("walk") /\ scan.todo = {} /\ scan.roots # {}
  /\ LET r == First(scan.roots)
         L == {f \in OnDisk : f[1] = r}
     IN scan' = [scan EXCEPT !.roots = @ \ {r}, !.todo = L, !.seen = @ \cup L]
  /\ UNCHANGED <<env, db, op, ctl>>

ScanVisit ==
  /\ Scanning("walk") /\ scan.todo # {}
  /\ LET f == FirstIn(scan.todo)
     IN /\ scan' = [scan EXCEPT !.todo = @ \ {f}]
        /\ Step(Scanner, [Idle EXCEPT !.pc = "stat", !.file = f])
  /\ UNCHANGED <<env, db, ctl>>

(* pruneMissing.  Neither query has an ORDER BY.                           *)
ScanListStale ==
  /\ Scanning("walk") /\ scan.todo = {} /\ scan.roots = {}
  /\ scan' = [scan EXCEPT !.phase = "prune",
                          !.stale = {b \in Rows : books[b].file \notin scan.seen}]
  /\ UNCHANGED <<env, db, op, ctl>>

ScanPrune(b) ==
  /\ Scanning("prune") /\ b \in scan.stale
  /\ scan' = [scan EXCEPT !.stale = @ \ {b}]
  /\ Step(Scanner, [Idle EXCEPT !.pc = "locs", !.book = b])
  /\ UNCHANGED <<env, db, ctl>>

ScanListLocations ==
  /\ Scanning("prune") /\ scan.stale = {}
  /\ scan' = [scan EXCEPT !.phase = "locations", !.todo = Located \ scan.seen]
  /\ UNCHANGED <<env, db, op, ctl>>

ScanPruneLocation(f) ==
  /\ Scanning("locations") /\ f \in scan.todo
  /\ scan' = [scan EXCEPT !.todo = @ \ {f}]
  /\ locs' = [locs EXCEPT ![f] = NoRow]
  /\ UNCHANGED <<env, books, nextId, issued, enr, shelf, op, ctl>>

(* ConsolidateDuplicateTitles: the groups are those of one query.          *)
SameTitle(t) == {b \in Rows : books[b].title = t}

(* Mutant: off by one, a pair is no duplicate.                             *)
ScanListTriples ==
  /\ Scanning("locations") /\ scan.todo = {}
  /\ LET dup == {t \in Titles : Cardinality(SameTitle(t)) > 2}
         G(t) == [keep |-> First(SameTitle(t)),
                  rest |-> SameTitle(t) \ {First(SameTitle(t))}]
     IN scan' = [scan EXCEPT !.phase = "merge", !.groups = {G(t) : t \in dup}]
  /\ UNCHANGED <<env, db, op, ctl>>

ScanListTitles ==
  /\ Scanning("locations") /\ scan.todo = {}
  /\ LET dup == {t \in Titles : Cardinality(SameTitle(t)) > 1}
         G(t) == [keep |-> First(SameTitle(t)),
                  rest |-> SameTitle(t) \ {First(SameTitle(t))}]
     IN scan' = [scan EXCEPT !.phase = "merge", !.groups = {G(t) : t \in dup}]
  /\ UNCHANGED <<env, db, op, ctl>>

ScanPick(g) ==
  /\ Scanning("merge") /\ g \in scan.groups
  /\ LET b == First(g.rest)
         m == Picked(g.keep, b)
         left == IF g.rest = {b} THEN {}
                 ELSE {[keep |-> m.book, rest |-> g.rest \ {b}]}
     IN IF {g.keep, b} \subseteq Rows
        THEN /\ Step(Scanner, m)
             /\ scan' = [scan EXCEPT !.groups = (@ \ {g}) \cup left]
        ELSE scan' = NoScan /\ UNCHANGED op
  /\ UNCHANGED <<env, db, ctl>>

ScanFinish ==
  /\ Scanning("merge") /\ scan.groups = {}
  /\ scan' = NoScan
  /\ UNCHANGED <<env, db, op, ctl>>

ScanSteps ==
  \/ ScanStart \/ ScanList \/ ScanVisit \/ ScanListStale \/ ScanListLocations
  \/ ScanListTitles \/ ScanFinish
  \/ \E b \in Ids : ScanPrune(b)
  \/ \E f \in Paths : ScanPruneLocation(f)
  \/ \E g \in scan.groups : ScanPick(g)

-----------------------------------------------------------------------------
(* Requests, and restarts.  At most one scan is queued or running, and a   *)
(* request for another while there is one changes nothing.                 *)

RequestScan ==
  /\ ~ queued /\ ~ Busy /\ used.scans < MaxScans
  /\ queued' = TRUE
  /\ UNCHANGED <<env, db, op, scan, clear, owed, used>>

(* Mutant: starts the ids again.                                           *)
ClearSequence ==
  /\ ~ clear /\ used.clears < MaxClears
  /\ used' = [used EXCEPT !.clears = @ + 1]
  /\ books' = [b \in Ids |-> NoRow] /\ locs' = [f \in Paths |-> NoRow]
  /\ enr' = [b \in Ids |-> NoRow] /\ shelf' = {} /\ nextId' = 1
  /\ clear' = TRUE /\ owed' = TRUE
  /\ Disturb
  /\ UNCHANGED <<env, issued, op, queued>>

ClearLibrary ==
  /\ ~ clear /\ used.clears < MaxClears
  /\ used' = [used EXCEPT !.clears = @ + 1]
  /\ books' = [b \in Ids |-> NoRow] /\ locs' = [f \in Paths |-> NoRow]
  /\ enr' = [b \in Ids |-> NoRow] /\ shelf' = {}
  /\ clear' = TRUE /\ owed' = TRUE
  /\ Disturb
  /\ UNCHANGED <<env, nextId, issued, op, queued>>

ClearEnqueue ==
  /\ clear
  /\ clear' = FALSE
  /\ queued' = (queued \/ ~ Busy)
  /\ UNCHANGED <<env, db, op, scan, owed, used>>

(* The interrupted scan is marked so at the next start, which always       *)
(* queues another; the watcher's timers are lost.                          *)
Crash ==
  /\ used.crashes < MaxCrashes
  /\ used' = [used EXCEPT !.crashes = @ + 1]
  /\ op' = [p \in Procs |-> Idle]
  /\ scan' = NoScan
  /\ timer' = [f \in Paths |-> "none"] /\ loose' = {}
  /\ firing' = [c \in Callbacks |-> NoRow]
  /\ queued' = TRUE /\ clear' = FALSE
  /\ UNCHANGED <<disk, changes, likes, db, owed>>

Next ==
  \/ \E f \in Paths, t \in Contents : WriteFile(f, t)
  \/ \E f \in Paths : RemoveFile(f) 
  \/ \E c \in Callbacks : FireEnd(c) \/ \E f \in Paths, k \in Kinds : Fire(c, f, k)
  \/ \E p \in Procs : Upsert(p) \/ Remove(p) \/ MergeBooks(p)
  \/ \E b \in Ids : \/ \E s \in Shelves : AddBookToShelf(s, b)
                   \/ \E i \in ISBNs : ApplyEnrichment(b, i)
  \/ MergeDuplicateISBN
  \/ ScanSteps \/ RequestScan
  \/ ClearLibrary \/ ClearEnqueue \/ Crash

Spec == Init /\ [][Next]_vars

-----------------------------------------------------------------------------
(* What is promised of the tables.                                         *)

TypeOK ==
  /\ disk \in [Paths -> File \cup {NoRow}] /\ changes \in 0 .. MaxChanges
  /\ likes \in 0 .. MaxLike
  /\ timer \in [Paths -> Kinds \cup {"none"}] /\ loose \subseteq Paths \X Kinds
  /\ firing \in [Callbacks -> Paths \cup {NoRow}]
  /\ books \in [Ids -> Book \cup {NoRow}] /\ nextId \in 1 .. MaxBooks + 1
  /\ issued \subseteq Ids
  /\ locs \in [Paths -> Loc \cup {NoRow}]
  /\ enr \in [Ids -> ISBNs \cup {NoRow}]
  /\ shelf \subseteq Shelves \X Ids
  /\ op \in [Procs -> Op] /\ scan \in Scans
  /\ queued \in BOOLEAN /\ clear \in BOOLEAN /\ owed \in BOOLEAN
  /\ used \in [scans : 0 .. MaxScans, clears : 0 .. MaxClears, crashes : 0 .. MaxCrashes]

(* The skip of unchanged files is safe as far as size and mtime tell:      *)
(* metadata that was parsed from the canonical file is that of the file on *)
(* disk whenever the recorded size and mtime are still the file's, whoever *)
(* else was indexing it, unless the last write left them like earlier ones.*)
(* A file written twice in a second, as large the second time, is indexed  *)
(* with what it held in between until it changes again.                    *)
SkippedIsFresh ==
  \A b \in Rows :
    LET f == books[b].file IN
    books[b].own /\ f \in OnDisk /\ books[b].stamp = disk[f].stamp /\ ~ disk[f].like
      => books[b].title = disk[f].title

(* Every known location belongs to a book.                                 *)
LocationsHaveBooks == \A f \in Located : locs[f].book \in Rows

(* A file is the canonical file of one book or a further location of one   *)
(* book, and not both.                                                     *)
OneRolePerFile == \A f \in Located : BookAt(f) = {}

(* The rows a deleted book leaves behind (its enrichment, its places on    *)
(* shelves, and what the races leave among the locations) never become     *)
(* another book's: no id is given out twice, clears in the middle of an    *)
(* upsert included.  Of an id no book has had yet nothing is said: a shelf *)
(* row that names one becomes the next book's.                             *)
Named == {b \in Ids : enr[b] # NoRow} \cup {locs[f].book : f \in Located}
           \cup {sb[2] : sb \in shelf}

OrphansStayOrphans == [][\A b \in (Named \cap issued) \ Rows : b \notin Rows']_vars

Shown(f) == BookAt(f) # {} \/ (f \in Located /\ locs[f].book \in Rows)

(* The scan is about to succeed.                                           *)
ScanDone == Scanning("merge") /\ scan.groups = {}

(* A scan that nothing interfered with ends with every file on disk        *)
(* reachable from some book.                                               *)
QuietScanIsComplete == ScanDone /\ scan.quiet => \A f \in OnDisk : Shown(f)

(* A scan ends with no two books of the same title and author.             *)
NoDuplicatesAfterScan ==
  ScanDone => \A t \in Titles : Cardinality(SameTitle(t)) <= 1

Shelved(s, f) ==
  \E b \in Rows : <<s, b>> \in shelf /\ (books[b].file = f \/ f \in LocsOf(b))

(* A reader's shelf survives every promotion, merge and restart: a file    *)
(* whose book is on the shelf stays on it unless the scan has found the    *)
(* file missing, or the library is cleared.                                *)
ShelvesSurvive ==
  [][\A s \in Shelves, f \in Paths : Shelved(s, f) /\ ~ Shelved(s, f)' =>
        \/ Busy /\ f \notin scan.seen
        \/ ~ clear /\ clear']_vars

-----------------------------------------------------------------------------
(* What the documentation says and the code does not do.                   *)

(* After a scan no book is at a path the scan has found missing.           *)
NothingMissingAfterScan ==
  ScanDone /\ scan.quiet => \A b \in Rows : books[b].file \in scan.seen

(* The canonical copy of a book is in the first of the roots that hold it. *)
FirstFolderWins ==
  ScanDone /\ scan.quiet =>
    \A b \in Rows : \A f \in LocsOf(b) : books[b].file[1] <= f[1]

(* Deleting a book deletes its enrichment.                                 *)
EnrichmentCascades == \A b \in Ids : enr[b] # NoRow => b \in Rows

(* The ISBN merge finds the other book with that ISBN, when there is one.  *)
IsbnDuplicatesMerge ==
  [][LET b == op[Enricher].book IN
     At(Enricher, "pickIsbn") /\ b \in Rows /\ enr[b] # NoRow /\ SameIsbn(b) \cap Rows # {}
       => (At(Enricher, "pickIsbn") \/ At(Enricher, "merge"))']_vars

(* A scan's prune deletes a book only when its file does not exist.        *)
ScanDeletesOnlyMissing ==
  [][\A b \in Rows :
       At(Scanner, "deleteBook") /\ op[Scanner].book = b /\ b \notin Rows'
         => books[b].file \notin OnDisk]_vars

(* A book is deleted outright only when it has no location left.           *)
DeletesOnlyWithoutLocations ==
  [][\A p \in Procs :
       At(p, "deleteBook") /\ op[p].book \in Rows /\ op[p].book \notin Rows'
         => LocsOf(op[p].book) = {}]_vars

(* With every event served and nothing running, the index knows exactly    *)
(* the watched files that exist.                                           *)
WatcherInSync ==
  (/\ \A p \in Procs : At(p, "idle")
   /\ ~ Busy /\ loose = {}
   /\ \A f \in Paths : timer[f] = "none")
    => \A f \in Watched : Shown(f) <=> f \in OnDisk

(* A clear that has answered has queued a scan, until that scan starts.    *)
ClearIsFollowedByScan == owed /\ ~ clear => queued
=============================================================================
