# A TLA+ model of my-eink-library

The program is a single Go server (`src/src`) that indexes EPUB files under one
or more library roots, keeps accounts, shelves and metadata in three SQLite
databases, and does its slow work (scans, metadata lookups, catalog refreshes,
mail) in goroutines. Most of what can go wrong in it is not in a function but
between two statements of two goroutines, or between a statement and a restart.
That is what these modules model.

Paths below are relative to `src/src/internal` unless they begin with `cmd/` or
`docs/`.

## 1. Inventory

| Component | State | Operations | What makes it hard | What makes it correct |
|---|---|---|---|---|
| Task manager (`tasks/tasks.go`) | `task_runs`, channel `wake` (capacity 1), root context | `Enqueue`, `claimNext`, `finish` (three tries), `Run`, `StartService`, `RecoverInterrupted`, worker loop | non-blocking send after commit, two-statement claim, store errors, crash leaves rows behind | one active run per key, FIFO, no lost wake-up, outcomes final, refines a job queue |
| Library index (`index/scan.go`, `dedup.go`, `watch.go`) | `books`, `book_locations`, `shelf_books`, `book_enrichment`, the watcher's timers | scan (walk, upsert, prune, consolidate), callbacks of the watcher, ISBN merge, promotion, clear | scan, callbacks, enrichment and handlers write the same rows in steps; files change meanwhile | locations have books, one role per file, no duplicates after a scan, shelves survive, no stale metadata as far as size and mtime tell |
| Accounts and links (`users/accounts.go`, `tokens.go`) | `users` | create, set role, enable, delete, invite, reset, accept | check in one statement, write in another | an administrator remains, links work once, disabled means blocked |
| Shelves (`index/shelves.go`) | `shelves`, `shelf_members`, `shelf_books` (another database than `users`) | page (ensures Favourites), create, rename, show, share, put, take, delete; deletion of an account | permission read first, write later; two databases | limit, one Favourites each, leftovers never adopted |
| Chaptarr client, cache, scheduler (`chaptarr/`, `web/chaptarr_refresh.go`, `index/chaptarr_cache.go`) | configuration and snapshot in memory, `chaptarr_catalog_cache` | crawl, publish, `SetConfig`, restore, poll, clear | crawls of tens of requests overlap with changes of configuration and with each other; a clear takes the table and leaves the memory | memory is backed, stale is refreshed |
| Enrichment (`web/enrichment_queue.go`, `index/enrichment.go`, `web/enrichment_form.go`) | `book_enrichment` | queue loop, claims, conceding, Hardcover pass, edit form, reset, clear | batch and snapshot are read long before they are used | claims final, typed values stay, every book decided |
| Digest (`web/digest.go`) | `meta.last_digest_sent_at` | scheduler, `SendDigestNow`, `maybeSendDigest` | mails cannot be rolled back; mark read early, written late; `added_at` read before the parse, inserted after | the mark passes only what a digest found or could not see, a due digest is sent |
| Instance settings (`users/settings.go`) | one row per kind | get and save | read-modify-write of a whole row by two forms | clients follow what is stored |
| Sessions, permissions, bookmark links (`auth/`, `users/permissions.go`, `users/tokens.go`) | `user_permission_overrides`, `users.can_bookmark`, `users.bookmark_token_hash`; signed cookies, kept by the browsers | sign in, follow a link, `Can`, set role, save the matrix, open `users.db` | a cookie cannot be revoked; `Can` is two statements; an answer is read by one handler statement and written by another | overrides are decisions, gains are served, restricted stays restricted, a new account inherits nothing |
| Hardcover client (`hardcover/client.go`) | enabled, token, `lastCallTime`, one mutex | `Enabled`, `throttle`, `currentToken`, `SetConfig` | the mutex is held through the sleep; the queue and pages share it | the rate is kept, a new token is used, everybody is served |
| Handlers, rendering (`web/handlers*.go`, `render.go`) | none of their own | call the stores above | several stores in one request | modelled inside the components they change |
| Index queries, EPUB, KEPUB, mail, thumbnails | none between calls | read, parse, convert, send | strings and bytes | not modelled (section 7) |
| Start-up (`cmd/server/main.go`), schema | order of start, migrations | recover, queue a scan, start services, cancel | `main` does not wait for goroutines | every module's `Boot`, `Start`, `Exit` or `Crash` |

How they interact. Handlers and schedulers call `Enqueue`; one worker runs
`rescan`, `chaptarr-refresh` and `email-digest` one after the other. The scan,
the watcher's callbacks, the enrichment goroutine and the handlers share the
index database, whose single connection makes a statement or a transaction
atomic and nothing larger. The queue uses the clients' configuration and
snapshot under mutexes that no network request holds; Hardcover's is held through
the limiter's sleep. Accounts live in another
database than shelves, so a handler that touches both is not atomic.

`PROJECT.json` lists the hazards at their lines with the properties aimed at
them.

## 2. Modules and how they correspond to the code

Every definition that stands for code is mapped to its lines in `PROJECT.json`.
Conventions: a statement, a transaction or a critical section is one action; a
handler of several is several actions joined by a control state (`proc`, `op`,
`req`, `crawl`, `save`, `queue`, `job`); a restart clears what is in memory and
keeps the tables; a row deleted is `NoRow`, and ids grow as AUTOINCREMENT does.

* **TaskQueue** — `runs` is the table in id order, `wake` the token, `proc` the
  worker, the services and the callers of `Run`, `caller` the gap of `Enqueue`
  between the commit and the send. `Enqueue`/`Signal`, `ClaimSelect`/`ClaimUpdate`,
  `HandlerReturns`/`FinishWrite`/`FinishError` are the two halves of the
  functions of those names.
* **JobQueue** — what the manager promises, with neither table nor channel.
  `TaskQueue!Abstract` is the refinement mapping (`Pending`, `Current`).
* **LibraryIndex** — `disk` and `timer` are the environment and the watcher,
  `op[p]` the per-file operation of the scanner, of each callback and of the
  enrichment goroutine (upsert, remove, merge share their steps, as they share
  their functions), `scan` the pass in progress; `issued` (the ids that books have
  had) and `owed` are history variables. `WriteFile` gives a file a new stamp or
  leaves it one like an earlier one (`like`), since the code compares size and
  mtime in whole seconds.
* **UserAccounts** — `users` with the columns `invite` and `reset` as token
  numbers; `req` what a request has read before it writes.
* **Shelves** — the three tables and `accounts`, the other database; `Start`
  joins the session's and the permission's lookup to the first read of the
  handler, `Handle` has one disjunct per later statement.
* **Integrations** — `settings` (the row), `hardcover` and `client` (what runs),
  `durable` (rows of the cache by scope), `crawl` (list, files, stamp, save,
  publish), `save` (read, write, configure, clear, load, restore). `ClearLibrary`
  deletes the durable rows and leaves the memory alone; `cleared` is a history
  variable: whether that happened since a crawl was last saved.
* **Enrichment** EXTENDS Integrations: `row`, the goroutine `queue` with its batch
  and the snapshot it read, `editor`, the reset, and `ClearIndex`, which takes the
  books and their rows together with the durable catalog. The two modules run together:
  a crawl, a change of settings or a restart falls between any two statements of
  the queue.
* **Access** — `users` with the columns that permissions read, `grants` (the
  overrides), `cookie` (what each browser keeps), `req` (what a request has read).
  `AskRole` and `AskOverride` are the two statements of `Can`; `for` names the
  caller that `Answer` returns to (the guard of a route, the bookmark page twice,
  `AdminUsersSetRole`). `LoginSubmit` is `CheckPassword`; the session is issued by a
  later step, `IssueSession`, which asks nothing, and so is that of a followed link
  and of the first set-up. `OpenByCommand` is an admin command that opens `users.db`
  while requests are served. `decided` and `signed` are history variables: what
  the matrix was saved with, and who has typed a password where. Accounts are
  also in UserAccounts, with other columns and other races: the two modules
  share the table, and `NotTheLast` is the same rule in both.
* **Hardcover** — `config`, `lock` and `since` are the client's fields, `call[c]`
  how far a goroutine is in `do`, `saving` the form's settings on their way to
  `SetConfig`. `Tick` is the clock. `latest` and `ahead` are history variables:
  `ahead` grows by the interval with each request and shrinks by one with each tick,
  so it bounds the requests of every stretch of time (a leaky bucket).
* **Digest** — `marker`, the scheduler `sched`, the task `job` one statement at a
  time; the task table is one flag, as TaskQueue justifies. `StampBook` reads
  `added_at` before the parse and `InsertBook` inserts the book later, or drops it;
  `listed` is a history variable: what the running digest's list made of each book.

`MC*` modules hold the sets and the symmetry of the instances.

### What is abstracted

* The wall clock never steps back. In Integrations and Enrichment an instant is
  the set of books added in an earlier second; all snapshots expire together
  (`HalfDayPasses`), and the scheduler may poll at any time (after a change of
  configuration the code may sleep up to twelve hours first). In Digest the sleep
  between two looks at the mark has no length.
* One directory per root; a file is a stamp (size and mtime) and a content (its
  title and author). A stamp is new, or like any earlier one while `MaxLike`
  allows. Covers, walk errors and nested directories are left out.
* Permissions and the shelf limit are constant; names that compare equal are
  one; of the slugs only Favourites' matters; `last_used_at` is left out.
* In Access a session's expiry is an `EndSession`; passwords match or do not. In
  Hardcover time is counted in ticks up to the interval, a sleep may last longer
  than asked, and an answer, an error and a closed page differ only in whether a
  second call follows.
* `title` stands for the fields a provider overwrites, `date` for those it fills
  in. A Chaptarr record names the same file on every server. Two reads of
  `Enabled` in a row are one. Errors of single statements are left out of
  Enrichment, and a book that is indexed again is another book in Digest.

## 3. Runs

TLC explores each instance completely. `CHECK_DEADLOCK FALSE` everywhere but in
access and hardcover, which never stop: with its counters at their bounds, the
program down and nothing left to do, a bounded system stops. Symmetry is used only
for safety and only over values that no definition tells apart. One constraint:
library_watch leaves a run that has cleared the library, or has put a book on the
shelf, one change to the files fewer for each (`FewThingsHappen`).

| Run | Instance | Distinct states | Shows |
|---|---|---|---|
| task_queue | 2 jobs, 2 callers, a service, a direct `Run`, 3 rows, 2 boots, 3 errors | 1,320,179 | types, `OneActivePerKey`, `RunningIsOwned`, `ExecutionIsRecorded`, `FirstQueuedFirstRun`, `NoLostWakeup`, `OutcomeIsFinal`, refinement of JobQueue |
| task_queue_live | 2 jobs, 2 callers, 3 errors | 61,088 | `QueuedIsStarted` |
| library_scan | 2 roots, 2 titles, 3 scans, 4 changes, 1 crash | 2,305,856 | `LocationsHaveBooks`, `OneRolePerFile`, `QuietScanIsComplete`, `NoDuplicatesAfterScan`, `ShelvesSurvive` |
| library_watch | scan, one callback, ISBN merge, clear, a shelf; 3 changes, one of which may leave a stamp like an earlier one | 1,119,326 | types, `SkippedIsFresh`, `OrphansStayOrphans` |
| user_accounts | 3 ids, 2 requests, 2 links | 645,722 | `AnAdminRemains`, `SpentIsDead`, `DisabledIsBlocked` |
| shelves | 2 users (one manager), 2 requests, limit 1 | 862,302 | `WithinLimit`, `LoneFavourites`, `DanglingStaysDangling`, `FavouritesStay` |
| integrations | task and page crawls, 2 saves (the last may clear the address), a clear of the library, 2 boots, 1 failure | 3,142,524 | `MemoryIsBacked` |
| enrichment | 1 book, a saved Hardcover form, an edit, a reset, a clear of the library | 1,834,165 | types, `ClaimIsFinal`, `TypedDateStays` |
| enrichment_live | 1 book, 2 boots, 1 failure, a reset, a clear of the library | 109,060 | `EveryBookIsDecided`, `StaleIsRefreshed` |
| digest | 2 books, list of 1, 2 weeks, 2 boots, 1 failure, 1 change | 1,064,464 | `NothingElseIsPassed`, `DueIsMarked` |
| access | 2 names, 2 ids, 2 browsers (a password is typed in one), 2 requests, 1 link, 3 matrices, 4 changes | 1,028,109 | `OverridesAreDecided`, `AdmittedIsFull`, `GainsAreServed`, `NewcomersInheritNothing` |
| hardcover | queue and page, 2 tokens, interval of 2 ticks | 100,076 | `RateIsKept`, `NewTokenIsUsed`, `EveryoneIsServed` |

The type invariants of UserAccounts, Shelves, Digest, Access and Hardcover are
theorems (section 4) and are not checked again by the runs.

Why the bounds are enough. Each race needs two actors and, to be noticed, one
later pass: so two requests, two or three scans, two boots. Two jobs tell "this
key" from "another key", and three rows let one finish, one run and one wait.
Three failing statements exhaust `finish`'s attempts. Three copies are the
smallest group that is merged pairwise while its winner changes: the
configuration MCLibraryMerge (three roots, three books of one title; 2,731,088
states) checks `NoDuplicatesAfterScan` and `ShelvesSurvive` for them. It keeps the
files still during a scan (`BetweenScans`) to afford the third root and is
beside the runs; library_scan lets files change. `MaxLike` is 0 there: a stamp that
looks like an earlier one can only hide what a file holds, which `SkippedIsFresh`
alone compares; library_watch has one such write. Two ids of shelves show a reused or a leftover
id; a limit of 1 is the limit at its boundary. A form may make a shelf shared
but not private again, since no property of that run reads a visibility
(ShelvesClaims lets it). A list of one book in Digest is the `LIMIT 500` at its
boundary, and the mark can pass a week twice.
The clock of Enrichment needs one book only, since the queue handles the books of
a batch one by one.

In Access two administrators, or an administrator and a member who is granted
`manage_users`, are enough for one to act on the other while a request of either
is under way. `Desks` is one browser, so the other can only hold a link's session
until it follows another; the three matrices contain every decision of both
permissions, one that any manager needs (`manage_users`) and the one that has a
column of its own (`bookmark_link`). Four changes let the two accounts be made
and two decisions race. In Hardcover an interval of two ticks lets a sleep begin
in the middle of the interval, and two goroutines let one be kept from its token by
the sleep of the other; for more `RateIsKept` is a theorem.

### Fairness

* TaskQueue: weak fairness of the worker's steps alone: the goroutine is
  scheduled and a handler returns. Errors are finitely many. The code does not
  bound a handler: `mail.Send` has no deadline.
* Enrichment: weak fairness of the queue's steps (its HTTP clients have timeouts),
  of the scheduler, the task and its crawl, and of time; strong fairness of
  reading a batch and a snapshot while the snapshot is fresh, because it is fresh
  for twelve hours and the loop sleeps thirty seconds.
* Hardcover: weak fairness of the clock, of the end of a sleep and of the answer (the
  HTTP client's timeout is 30 seconds), and strong fairness of a caller's taking the
  mutex (`TakeMutex`), because Go's `sync.Mutex` hands itself to the longest waiter
  once one has waited a millisecond. Nobody has to ask, and no form has to be
  saved.
* Digest: weak fairness of the scheduler and of every statement of the task, none
  of a mail: `DueIsMarked` excuses a task that waits for the mail server. It is also
  satisfied when a scheduler that could not read the mark sets it anew.

## 4. Proofs

TLAPS checks these for all values of the constants, from the named assumptions
`ProcAssumption`, `BoundAssumption`, `AccountsAssumption`, `NoUserAssumption`,
`ShelvesAssumption`, `NoShelfAssumption`, `DigestAssumption`, `AccessAssumption`,
`AbsentAssumption`, `HardcoverAssumption`, `NoSaveAssumption`, `EndpointAssumption`,
`CrawlerAssumption`, `FormAssumption`, `IntegrationBounds`, `BooksAssumption`,
`EnrichmentBounds`, `IndexAssumption` and `NoRowAssumption`.

* **TaskQueueProofs.** The inductive invariant is `TypeOK /\ Owners /\ SoleOwner /\
  OneActivePerKey /\ FirstQueuedFirstRun`. `OneActivePerKey` alone is not
  inductive: a worker that marks a row running must know that the row is still
  queued and that nobody else owns it (`Owners`, `SoleOwner`). `NoLostWakeup` is
  proved on top, `OutcomeIsFinal` from a lemma on steps (`StepAdvances`), and
  `ManagerImplementsJobQueue` by one lemma per action that the action is a step of
  JobQueue or leaves `Pending` and `Current` as they were. `RunningIsOwned` needs
  that a goroutine counts no more failed attempts than the store had errors
  (`TriesCounted`): a row is given up only after three.
* **UserAccountsProofs.** `AdminInv` (types; ids not given out are empty; an insert
  comes after the first account; an administrator remains): a role or a flag is
  lowered only when the transaction counted another enabled administrator, whose
  existence is a fact about cardinality (`AnotherAdmin`). `LinkInv` (names are
  unique; issued tokens are older than the next; tokens are distinct; accepted ones
  are gone) gives `LinksWorkOnce`. `DisabledIsBlocked` is proved on steps: a flag
  changes only where the links are kept, and a link is completed only by a handler
  that read the flag in the same transaction (`BlockedNext`).
* **ShelvesProofs.** `Inv` (types; what a request carries after it was admitted;
  ids in use were given out). `StepShape` says that a step inserts one shelf with
  the next id, or keeps or deletes those there are, and spares system shelves;
  the limit, the single Favourites, the leftovers and the system shelves follow.
* **DigestProofs.** `MissedIsPast`: the mark has not moved back since the task read
  it, and what the running digest's list left out, of the books that were in the
  table, is behind the mark already. The mark is written by the end of a digest or
  by the start of the clock (`MarkSteps`), so what a digest's mark passes was on its
  list or was not yet in the table (`NothingElseIsSkipped`).
* **AccessProofs.** `Inv` is `TypeOK /\ OverridesAreDecided /\ FullIsSigned /\
  DueIsSigned /\ AdmittedIsFull`. `AdmittedIsFull` is not inductive alone: a request
  is admitted by its cookie, so every full cookie, and every full session that is
  about to be issued, must belong to somebody who signed in there. `GainsOnlyServed`
  needs that ids are not given out twice (`FreeIds`), and goes action by action:
  what a restart or a command writes only revokes. `NewcomersAreClean` needs that no
  override and no request names an id that was not given out; a request carries on
  only ids that it has read (`GoesOn`).
* **HardcoverProofs.** `Inv` adds to the types that whoever sleeps in `throttle`
  holds the mutex (`SleeperHoldsLock`) and that the rest of its sleep completes the
  interval (`SleepIsEnough`): nobody else can pass meanwhile, so a turn costs an
  interval. The requests that left, the goroutines whose turn is over and the time
  since the last turn have a bound together (`Reserve`), a fact about the cardinality
  of the goroutines in between; `RateHolds` follows for any number of them.
  `NewTokenIsUsed` is inductive with them.
* **LibraryIndexProofs.** `Sound` is the inductive invariant of every instance:
  the types; what an operation carries at each of its stages; ids older than the
  next; stamps no newer than the last change; and for every row, and every
  operation that has parsed a file, that what was parsed is the file's content
  while the stamp is the file's and its last write gave it a new one (`Parsed`).
  There is one lemma per action, for any
  goroutine. `SkipIsSafe` follows, and `OrphansStay` because only the next id is
  ever born (`OnlyNextIdIsBorn`). It is about ids that books have had: nothing in the
  code keeps a reader from putting an id that was never given out on a shelf, and the
  next book is then on it.
  The other theorems are about the scan without the watcher and without ISBN
  merges (`Undisturbed`: no directory is watched, no provider returns an ISBN),
  while files change, readers use their shelves, the library is cleared and the
  program restarts at any point. `Alone` is inductive there: nobody else runs,
  `books.file_path` is unique, a file has one role, and the scanner's operation
  still finds what it read (`ScannerKnows`: a path not found is still not there;
  a book to be removed was not seen and, when it is to be deleted, has no
  location; both books of a merge are there or neither is; twins share a group or
  one of them is about to be dropped). From `Alone` follow `RolesAreExclusive`,
  `ScansMergeTwins` for groups of every size, and `DeletesSpareLocations`.
  `ShelvesStay` is `FilesStay`, proved action by action: after a step each file
  of a book is held by some book that is on all its shelves, or the scan has
  found the file missing. With no clear either (`MaxClears = 0`), `Kept` is
  inductive: locations have books, the book that an attach or an update has found
  is still there, and in a quiet scan every file is in sight and is shown or due.
  It gives `LocationsKeepBooks` and `QuietScansAreComplete`.
  The hypotheses describe an installation whose directories cannot be watched and
  whose providers are off, and they are needed. `OneRolePerFile` fails with a
  callback, which inserts a file as a book between the scan's lookup and its
  location, and with ISBN merges, which record as a location a path that the scan
  has just looked up. `NoDuplicatesAfterScan` fails with a callback;
  `ShelvesSurvive` fails with ISBN merges, which give the files of a book to one
  that the prune has just deleted. A clear between the find and the attach leaves
  a location without a book, and every later scan skips that file. TLC finds each
  of these when the constants of MCLibraryScan are changed so.
* **EnrichmentProofs** begins with the integrations beneath. Their types need
  `ListedFrom`: a crawl that is listing files began at a server.
  `SnapshotIsBacked` is about the instances in which every form names one server
  (`OneAddress`): by `Backed` a crawl or a form that is under way carries that
  server's address, the crawl writes its catalog before it publishes it, and what is in
  memory stays backed until the library is cleared. With
  several addresses the statement is false, as IntegrationsMoved shows: a crawl
  publishes after the change. The run also lets the last form clear the address,
  which the theorem does not cover.
  For the queue, `RowInv` adds to the types that a claimed row is done
  (`ClaimedIsDone`), that no book in the batch is claimed but the one whose status
  is about to be recorded again (`BatchIsUnclaimed`), and which outcomes each stage
  may hold (`OutcomeIsKnown`). That a batch has a first book (`HeadOfBatch`) comes from the
  well-foundedness of the naturals. One lemma per action keeps `RowInv` and gives
  `RowsKept`, from which `ClaimsAreFinal` and `TypedDatesStay` follow; the steps of
  the integrations are those of the first half.

Only model-checked: the five liveness properties and everything that needs
`ENABLED`, which are out of the prover's reach. Every safety property that a run
checks is stated by a theorem, some under the hypotheses named above. Facts about
recursively defined data would need induction rules the installed provers cannot
instantiate; the modules avoid recursion.

## 5. What the checks found

The following configurations are beside the runs; each checks statements of a
comment, a document or a test, and TLC finds a counterexample to every one
(`tlc -config X.cfg <MC module>`, with `-continue` where there are two; the module
of HardcoverOff is Hardcover):

| Configuration | Property | Statement | What happens |
|---|---|---|---|
| LibraryUnseen | `QuietScanIsComplete` | scan.go:24-25 | after a race with the watcher a location row names no book and the file is skipped ever after |
| LibraryFirstFolder | `FirstFolderWins` | docs/quick-start.md:43 | a copy found later in an earlier folder never becomes canonical |
| LibraryIsbn | `IsbnDuplicatesMerge` | dedup.go:219-220 | the lookup hits the leftover row of a deleted book, the live duplicate stays |
| LibraryCascade | `EnrichmentCascades` | dedup.go:95-96 | foreign keys are off; the enrichment row stays |
| LibraryClear | `ClearIsFollowedByScan` | handlers.go:978 | while a scan runs, the clear queues none |
| LibraryWatch | `WatcherInSync` | watch.go:18-19 | a running callback outlives `Stop` and restores a row for a deleted file |
| LibraryMissing | `NothingMissingAfterScan` | scan.go, the prune | a promotion to a location that is gone too lasts until the next scan |
| LibraryPrune | `ScanDeletesOnlyMissing` | scan.go:24-25 | a file that is back before the delete loses its book |
| LibraryPrune | `DeletesOnlyWithoutLocations` | scan.go:290 | a location inserted between the read and the delete is orphaned |
| AccountsClaims | `EmailsAreUnique` | accounts.go:358 | two requests give one address to two accounts |
| AccountsClaims | `AcceptedIsNotPending` | handlers.go:457-458 | a resent invitation makes an accepted account pending |
| ShelvesClaims | `PrivateHasNoMembers` | shelves.go:435, :450 | a shared shelf made private keeps its members |
| ShelvesClaims | `AbsentOwnNothing` | shelves.go:466-467 | a page served between the two deletions makes Favourites again |
| EnrichmentConcede | `ConcededIsNotCatalogued` | enrichment_queue.go:56-57 | the snapshot is stamped after its pages were read: a book imported and indexed meanwhile counts as checked and is given to Hardcover for good |
| EnrichmentTyped | `TypedTitleStays` | enrichment.go:329-330 | a batch read before the edit overwrites what was typed |
| EnrichmentReset | `DoneHasSource` | enrichment.go:384-386 | a reset between the match and its status leaves a row that is done and empty |
| EnrichmentStarves | `EveryListedBookIsDecided` | enrichment.go:83-84 | with Chaptarr alone unmatched books fill every batch |
| IntegrationsMoved | `DurableIsOfScope` | client.go:111-112 | a crawl of the old server is stored under the new one |
| IntegrationsMoved | `MemoryIsOfEndpoint` | client.go:97 | and is published after the change |
| IntegrationsForms | `ClientsFollowSettings` | client and form | two saved forms lose one another's half |
| DigestRestart | `RestartRepeatsNothing` | digest.go:24-25 | a restart before the mark mails the list again |
| DigestRestart | `NothingIsMissed` | digest.go:24-25 | a restart that cannot read the mark sets it to now; a book met before a digest's clock and inserted after its list is in no digest |
| AccessClaims | `DefaultStays` | permissions.go:112-113, administrator-access.md:37 | a new role for a disabled account revokes its bookmark link; a revocation that was cleared returns when users.db is opened |
| AccessClaims | `RevokeStays` | handlers.go:360-361 | a role change that asked `Can` before the matrix was saved deletes the revocation |
| HardcoverOff | `NothingAskedWhenOff` | client.go:62-64 | a call that waits in `throttle` is sent after Hardcover was turned off |
| HardcoverOff | `RequestsAreSpaced` | client.go:152-153 | a caller that had its turn waits for the mutex behind the next sleeper, and both requests leave together |

## 6. Plan

Written, in this order: TaskQueue with JobQueue and its proofs; LibraryIndex;
UserAccounts and proofs; Shelves and proofs; Integrations; Enrichment; Digest and
proofs; Access and proofs; Hardcover and proofs; the proofs of Integrations,
Enrichment and LibraryIndex.

Next, modelling:
1. **Settings**: the general settings and the runtime copies of them that
   handlers change without a lock, and the first-start seeding from the
   environment.
2. **AccountDeletion**: UserAccounts and Shelves composed, with sessions, an
   abstract specification ("a deleted account owns nothing") and how far the two
   databases implement it.
3. **PathMatch** and `pickCanonical` as pure operators against reference
   definitions.
4. An abstract specification of the index (file to book, shelf to file) that
   LibraryIndex implements when no callback runs.
5. LibraryIndex: further locations whose content changes, unreadable roots.

Next, proofs: the refinement of item 4, for which `FilesStay` is the step;
`NoDuplicatesAfterScan` with ISBN merges beside the scan, which TLC finds to hold
on the instance of library_scan with one ISBN.

## 7. Not modelled

Index queries (read-only SQL), EPUB parsing and KEPUB conversion (functions of a
file), Hardcover's queries and scoring (strings), the mail protocol, image
scaling, HTML rendering and the parsing of the environment: no state between
calls that a property could be about. Migrations but `migrateColumns` run alone,
before anything else.

Of the modelled parts: directories (a watch that is added after files were put
into a new directory, `index/watch.go:98`), a watcher that fails to start
(`cmd/server/main.go:200`; it is the instance with `Watched` empty), a root that
cannot be read (`index/scan.go:67`: the prune then deletes the books below it),
and what an invitation is worth before it is accepted (`users/tokens.go:118`: the
rule of the last administrator counts invited ones, as `AnAdminRemains` does).
Cookies carry a username: an account made later with the name of a deleted one
takes its open sessions over; and a sign-in whose password was found right before
its account was disabled or deleted still sets its cookie. Access lets both happen.
No property forbids the first, as nothing in the repository speaks of it; the
second is harmless because every request looks the account up again, which the
modelled requests do and which a property would only restate.

What the properties leave out, because the code does not give it: a file that is
written twice in a second, as large the second time, or that is replaced by a copy
with an older mtime, is skipped until it changes again (`index/scan.go:112`;
`SkippedIsFresh` excuses such a write). A shelf row for an id that no book has had
yet becomes the next book's (`index/shelves.go:556`; `OrphansStayOrphans` is about
ids that were given out). After a clear of the library the catalog in memory has
no durable copy until the next crawl is saved (`index/db.go:173`; `MemoryIsBacked`
excuses it). With the watcher beside it a scan keeps neither `LocationsHaveBooks`
nor `QuietScanIsComplete`, and can delete the book of a file that is back: section 5
shows how. A handler that never returns stops the worker; the liveness runs assume
that handlers return.
