----------------------------- MODULE Enrichment -----------------------------
(***************************************************************************)
(* The enrichment queue (src/internal/web/enrichment_queue.go) over the    *)
(* rows of book_enrichment (index/enrichment.go), beside it the Edit       *)
(* Metadata form and the reset of all enrichment, and below it the clients *)
(* and the catalog snapshot of Integrations.                               *)
(*                                                                         *)
(* A book is its id; ids grow and are not used again.  The fields of a     *)
(* row are told apart by how a provider treats what is there: title stands *)
(* for those it overwrites (title, series, genres, publisher, pages, ISBN, *)
(* rating), date for those it only fills in (release date, a substantial   *)
(* description).  A field holds the name of its supplier.                  *)
(***************************************************************************)
EXTENDS Integrations, FiniteSets

CONSTANTS
  Dated,      \* the books whose EPUB has a release date
  Editors,    \* requests that save the Edit Metadata form
  BatchSize,  \* the LIMIT of the candidates query
  MaxEdits,   \* bound on the forms saved
  MaxResets   \* bound on the resets

ASSUME BooksAssumption == Books \subseteq Nat /\ Dated \subseteq Books

ASSUME EnrichmentBounds ==
  BatchSize \in Nat \ {0} /\ MaxEdits \in Nat /\ MaxResets \in Nat

VARIABLES
  book,    \* is the book in the index, and did Chaptarr have it first?
  row,     \* the rows of book_enrichment
  queue,   \* the enrichment goroutine
  editor,  \* what each edit has left to do: a book, or 0
  edits, resets

evars == <<book, row, queue, editor, edits, resets>>
vars  == <<ivars, evars>>

Row == [status : {"none", "done", "no_match", "error"},
        source : {"none", "chaptarr", "hardcover", "manual"},
        ch     : {"none", "done", "no_match"},
        hc     : {"none", "done", "no_match", "error"},
        title  : {"none", "file", "chaptarr", "hardcover", "manual"},
        date   : {"none", "file", "hardcover", "manual"}]

NoRow == [status |-> "none", source |-> "none", ch |-> "none", hc |-> "none",
          title |-> "none", date |-> "none"]

(* batch: what is left of the candidates; known: the snapshot read with    *)
(* them; outcome: the status the goroutine is about to record.             *)
Queue == [pc      : {"poll", "snapshot", "next", "claim", "concede", "search",
                     "apply", "status", "provider"},
          batch   : SUBSET Books,
          known   : Snapshot,
          outcome : {"none", "done", "no_match", "error"}]

Polling == [pc |-> "poll", batch |-> {}, known |-> NoSnapshot, outcome |-> "none"]

Present(b) == book[b] \in {"local", "catalogued"}

Init ==
  /\ IInit
  /\ book = [b \in Books |-> "absent"]
  /\ row = [b \in Books |-> NoRow]
  /\ queue = Polling
  /\ editor = [e \in Editors |-> 0]
  /\ edits = 0 /\ resets = 0

-----------------------------------------------------------------------------
(* The index: a book gets the next id; a book goes when a scan prunes it   *)
(* or a merge deletes it, and its enrichment row stays.  catalogued: some  *)
(* Chaptarr server had the file before the index did.                      *)

AddBook(b) ==
  /\ up /\ book[b] = "absent"
  /\ \A a \in Books : a < b => book[a] # "absent"
  /\ book' = [book EXCEPT ![b] = IF \E e \in Endpoints : b \in server[e]
                                 THEN "catalogued" ELSE "local"]
  /\ UNCHANGED <<ivars, row, queue, editor, edits, resets>>

DropBook(b) ==
  /\ up /\ Present(b)
  /\ book' = [book EXCEPT ![b] = "gone"]
  /\ UNCHANGED <<ivars, row, queue, editor, edits, resets>>

SecondPasses ==
  /\ SecondEnds({b \in Books : book[b] # "absent"})
  /\ UNCHANGED evars

Halt == Exit /\ queue' = Polling /\ editor' = [e \in Editors |-> 0]
             /\ UNCHANGED <<book, row, edits, resets>>

-----------------------------------------------------------------------------
(* The statements on a row.  A status is upserted whether or not the book  *)
(* is there; a patch is merged in a transaction that fails when it is not. *)

(* Mutant: every field of the patch is taken.                              *)
TakeAll(cur, patch) ==
  [title |-> IF patch.title # "none" THEN patch.title ELSE cur.title,
   date  |-> IF patch.date # "none" THEN patch.date ELSE cur.date]

MergeProvider(cur, patch) ==
  [title |-> IF patch.title # "none" THEN patch.title ELSE cur.title,
   date  |-> IF cur.date = "none" THEN patch.date ELSE cur.date]

MergeManual(cur, patch) ==
  [title |-> IF patch.title # "none" THEN patch.title ELSE cur.title,
   date  |-> IF patch.date # "none" THEN patch.date ELSE cur.date]

(* currentEnrichmentMerged: the row over what the EPUB has.                *)
Current(b) ==
  [title |-> IF row[b].title = "none" THEN "file" ELSE row[b].title,
   date  |-> IF row[b].date = "none" /\ b \in Dated THEN "file" ELSE row[b].date]

Written(b, fields, source) ==
  [row[b] EXCEPT !.title = fields.title, !.date = fields.date,
                 !.status = "done", !.source = source]

ApplyChaptarr(b, patch) ==
  row' = [row EXCEPT ![b] = [Written(b, MergeProvider(Current(b), patch), "chaptarr")
                               EXCEPT !.ch = "done"]]

ApplyHardcover(b, patch) ==
  row' = [row EXCEPT ![b] = [Written(b, MergeProvider(Current(b), patch), "hardcover")
                               EXCEPT !.hc = "done"]]

-----------------------------------------------------------------------------
(* RunEnrichmentQueue: read a batch, read the snapshot, take the books of  *)
(* the batch one after the other.                                          *)

(* Mutant: what is incomplete is a candidate, whatever its status.         *)
Incomplete == {b \in Books : Present(b) /\ (row[b].status = "none" \/ Current(b).date = "none")}

Candidates == {b \in Books : Present(b) /\ row[b].status = "none"}

(* ORDER BY id LIMIT.                                                      *)
Batch == {b \in Candidates : Cardinality({a \in Candidates : a <= b}) <= BatchSize}

ReadBatch ==
  /\ up /\ queue.pc = "poll"
  /\ hardcover \/ Enabled
  /\ Batch # {}
  /\ queue' = [queue EXCEPT !.pc = "snapshot", !.batch = Batch]
  /\ UNCHANGED <<ivars, book, row, editor, edits, resets>>

ReadSnapshot ==
  /\ queue.pc = "snapshot"
  /\ queue' = IF ~Enabled THEN [queue EXCEPT !.pc = "next"]
              ELSE IF client.snap.age = "fresh"
                   THEN [queue EXCEPT !.pc = "next", !.known = client.snap]
                   ELSE Polling
  /\ UNCHANGED <<ivars, book, row, editor, edits, resets>>

Head1   == CHOOSE b \in queue.batch : \A a \in queue.batch : b <= a
Waits   == Enabled /\ Head1 \notin queue.known.covers
Matches == Enabled /\ Lists(queue.known, Head1)

(* The rest of the batch, or the next round of the loop.                   *)
Rest == IF queue.batch = {Head1} THEN Polling
        ELSE [queue EXCEPT !.pc = "next", !.batch = @ \ {Head1}, !.outcome = "none"]

TakeBook ==
  /\ queue.pc = "next"
  /\ queue' = IF Waits THEN Rest
              ELSE [queue EXCEPT !.pc = IF Matches THEN "claim"
                                        ELSE IF queue.known.age # "never"
                                             THEN "concede" ELSE "search"]
  /\ UNCHANGED <<ivars, book, row, editor, edits, resets>>

(* The lookup by Hardcover's id fills in what Chaptarr does not have; it   *)
(* may fail, and the record may have no such id.                           *)
ClaimBook ==
  /\ queue.pc = "claim"
  /\ IF Present(Head1)
     THEN \E date \in {"none"} \cup (IF hardcover THEN {"hardcover"} ELSE {}) :
            ApplyChaptarr(Head1, [title |-> "chaptarr", date |-> date])
     ELSE UNCHANGED row
  /\ queue' = Rest
  /\ UNCHANGED <<ivars, book, editor, edits, resets>>

ConcedeBook ==
  /\ queue.pc = "concede"
  /\ row' = [row EXCEPT ![Head1].ch = "no_match"]
  /\ queue' = [queue EXCEPT !.pc = "search"]
  /\ UNCHANGED <<ivars, book, editor, edits, resets>>

SearchHardcover ==
  /\ queue.pc = "search"
  /\ IF hardcover
     THEN \/ queue' = [queue EXCEPT !.pc = "apply", !.outcome = "done"]
          \/ \E o \in {"no_match", "error"} :
               queue' = [queue EXCEPT !.pc = "status", !.outcome = o]
     ELSE queue' = Rest
  /\ UNCHANGED <<ivars, book, row, editor, edits, resets>>

ApplyMatch ==
  /\ queue.pc = "apply"
  /\ IF Present(Head1)
     THEN /\ ApplyHardcover(Head1, [title |-> "hardcover", date |-> "hardcover"])
          /\ queue' = [queue EXCEPT !.pc = "status"]
     ELSE /\ row' = [row EXCEPT ![Head1].status = "error"]
          /\ queue' = Rest
  /\ UNCHANGED <<ivars, book, editor, edits, resets>>

(* Mutants: an error is not recorded; a status goes to the wrong column.   *)
RecordNoError ==
  /\ queue.pc = "status"
  /\ row' = IF queue.outcome = "error" THEN row
            ELSE [row EXCEPT ![Head1].status = queue.outcome]
  /\ queue' = IF queue.outcome = "done" THEN Rest
              ELSE [queue EXCEPT !.pc = "provider"]
  /\ UNCHANGED <<ivars, book, editor, edits, resets>>

RecordOther ==
  /\ queue.pc = "provider"
  /\ row' = [row EXCEPT ![Head1].ch = queue.outcome]
  /\ queue' = Rest
  /\ UNCHANGED <<ivars, book, editor, edits, resets>>

RecordStatus ==
  /\ queue.pc = "status"
  /\ row' = [row EXCEPT ![Head1].status = queue.outcome]
  /\ queue' = IF queue.outcome = "done" THEN Rest
              ELSE [queue EXCEPT !.pc = "provider"]
  /\ UNCHANGED <<ivars, book, editor, edits, resets>>

RecordProvider ==
  /\ queue.pc = "provider"
  /\ row' = [row EXCEPT ![Head1].hc = queue.outcome]
  /\ queue' = Rest
  /\ UNCHANGED <<ivars, book, editor, edits, resets>>

QueueStep ==
  \/ ReadBatch \/ ReadSnapshot \/ TakeBook \/ ClaimBook \/ ConcedeBook
  \/ SearchHardcover \/ ApplyMatch \/ RecordStatus \/ RecordProvider

-----------------------------------------------------------------------------
(* BookEditMetadataSave: the fields that were typed, then the status.      *)

SaveMetadata(e, b) ==
  /\ up /\ editor[e] = 0 /\ edits < MaxEdits
  /\ Present(b)
  /\ edits' = edits + 1
  /\ editor' = [editor EXCEPT ![e] = b]
  /\ \E title, date \in {"none", "manual"} :
       row' = [row EXCEPT ![b] =
                 Written(b, MergeManual(Current(b), [title |-> title, date |-> date]), "manual")]
  /\ UNCHANGED <<ivars, book, queue, resets>>

MarkEdited(e) ==
  /\ editor[e] # 0
  /\ row' = [row EXCEPT ![editor[e]].status = "done"]
  /\ editor' = [editor EXCEPT ![e] = 0]
  /\ UNCHANGED <<ivars, book, queue, edits, resets>>

ResetEnrichment ==
  /\ up /\ resets < MaxResets
  /\ resets' = resets + 1
  /\ row' = [b \in Books |-> NoRow]
  /\ UNCHANGED <<ivars, book, queue, editor, edits>>

(* The clearing of the library takes the books, their rows and the durable *)
(* catalog in one transaction.                                             *)
ClearIndex ==
  /\ ClearLibrary
  /\ book' = [b \in Books |-> IF Present(b) THEN "gone" ELSE book[b]]
  /\ row' = [b \in Books |-> NoRow]
  /\ UNCHANGED <<queue, editor, edits, resets>>

-----------------------------------------------------------------------------
IntegrationStep ==
  /\ \/ \E e \in Endpoints, b \in Books : Import(e, b)
     \/ HalfDayPasses
     \/ Boot \/ SchedulerEnqueues \/ TasksPageEnqueues \/ RunRefresh
     \/ \E c \in Pages : EditPage(c)
     \/ \E c \in Crawlers : CrawlStep(c)
     \/ \E s \in Savers : SaveHardcoverForm(s) \/ SaveChaptarrForm(s) \/ SaveStep(s)
  /\ UNCHANGED evars

Next ==
  \/ \E b \in Books : AddBook(b) \/ DropBook(b)
  \/ SecondPasses \/ Halt
  \/ IntegrationStep
  \/ QueueStep
  \/ \E e \in Editors : MarkEdited(e) \/ \E b \in Books : SaveMetadata(e, b)
  \/ ResetEnrichment \/ ClearIndex

Spec == Init /\ [][Next]_vars

(* The goroutine runs and its searches end; a snapshot that is fresh for   *)
(* twelve hours is seen by a loop that sleeps thirty seconds; half a day   *)
(* and a second do pass.                                                   *)
QueueFairness ==
  /\ WF_vars(QueueStep)
  /\ SF_vars(ReadBatch /\ client.snap.age = "fresh")
  /\ SF_vars(ReadSnapshot /\ client.snap.age = "fresh")

TimeFairness == WF_vars(SecondPasses) /\ WF_vars(HalfDayPasses /\ UNCHANGED evars)

CrawlFairness ==
  /\ WF_vars(SchedulerEnqueues /\ UNCHANGED evars)
  /\ WF_vars(RunRefresh /\ UNCHANGED evars)
  /\ WF_vars(CrawlStep(Task) /\ UNCHANGED evars)

FairSpec == Spec /\ QueueFairness /\ TimeFairness /\ CrawlFairness

-----------------------------------------------------------------------------
TypeOK ==
  /\ IntegrationsTypeOK
  /\ book \in [Books -> {"absent", "local", "catalogued", "gone"}]
  /\ row \in [Books -> Row]
  /\ queue \in Queue
  /\ editor \in [Editors -> Books \cup {0}]
  /\ edits \in 0 .. MaxEdits /\ resets \in 0 .. MaxResets

(* What a provider has claimed only the form, the reset and the clearing   *)
(* of the library change: a book Chaptarr claimed is never touched by the  *)
(* Hardcover pass, whatever the providers, the catalog, the batches and    *)
(* their late statements do.                                               *)
ClaimIsFinal ==
  [][\A b \in Books :
       row[b].source \in {"chaptarr", "hardcover"} =>
         \/ row'[b] = NoRow \/ row'[b].source = "manual"
         \/ [row'[b] EXCEPT !.ch = row[b].ch, !.hc = row[b].hc] = row[b]]_vars

(* A release date that was typed survives every automatic pass, one that   *)
(* began before the edit included.                                         *)
TypedDateStays ==
  [][\A b \in Books :
       row[b].date = "manual" => row'[b].date = "manual" \/ row'[b] = NoRow]_vars

(* A book that is in the index is decided, unless it goes, Hardcover is    *)
(* switched off or the program stops: none waits for ever for a snapshot,  *)
(* whatever is imported, expires or fails.                                 *)
EveryBookIsDecided ==
  \A b \in Books :
    (up /\ Present(b)) ~>
      (~up \/ ~hardcover \/ ~Present(b) \/ row[b].status # "none")

(* With Chaptarr alone: a book that its server has is enriched.            *)
EveryListedBookIsDecided ==
  \A b \in Books :
    (up /\ book[b] = "catalogued") ~>
      (~up \/ ~Enabled \/ ~Present(b) \/ row[b].status # "none")

(* A book is conceded to Hardcover only when Chaptarr does not have it: a  *)
(* book that Chaptarr had before the index did never is.                   *)
ConcededIsNotCatalogued ==
  \A b \in Books : row[b].ch = "no_match" => book[b] # "catalogued"

(* A title that was typed stays until it is edited again or all enrichment *)
(* is reset.                                                               *)
TypedTitleStays ==
  [][\A b \in Books :
       row[b].title = "manual" => row'[b].title = "manual" \/ row'[b] = NoRow]_vars

(* A row that is done says whose fields it has: a reset has the book       *)
(* picked up again.                                                        *)
DoneHasSource ==
  \A b \in Books :
    Present(b) /\ row[b].status = "done" => row[b].source # "none"
=============================================================================
